---------------------------- MODULE Spec2Model ----------------------------
(***************************************************************************)
(* A model of ed25519-compact (Ed25519 signatures, X25519 key agreement).  *)
(*                                                                         *)
(* The algorithms are those of the source, step for step; the parameters   *)
(* are scaled down so that the group can be enumerated:                    *)
(*                                                                         *)
(*   source                         model                                  *)
(*   p = 2^255 - 19                 P = 2^9 - 3 = 509      (P % 8 = 5)      *)
(*   32-byte string (256 bits)      one symbol of SymBits = 10 bits        *)
(*   l = 2^252 + 277...             L = 67 = 2^6 + 3                        *)
(*   curve order 8*l                8*L = 536                              *)
(*   d = -121665/121666             FE_D = -(A24-1)/A24, A24 = 89          *)
(*   SHA-512: 128-byte block,       BlockLen = 2 symbols,                  *)
(*            64-byte digest        2-symbol digest                        *)
(*                                                                         *)
(* A 32-byte string is modelled by its little-endian value, a number in    *)
(* 0 .. 2^SymBits - 1; a byte sequence fed to the hash is a sequence of    *)
(* symbols.  A field element Fe is modelled by the integer its limbs       *)
(* stand for, which need not be reduced: add and neg do not carry, mul,    *)
(* square and sub do (field25519.rs), and == compares representations.     *)
(***************************************************************************)
EXTENDS Integers, Sequences, FiniteSets, TLC

(***************************************************************************)
(* Parameters                                                              *)
(***************************************************************************)
FieldBits == 9

SymBits == 10

P == 509

L == 67

FE_D == 325

FE_D2 == 141

FE_SQRTM1 == 301

A24 == 89

BXP == 504

BYP == 41

FE_CURVE25519_BASEPOINT == 228

TopWindow == 8

BlockLen == 2

FE_ZERO == 0

FE_ONE == 1

TwoF == 2 ^ FieldBits

TwoW == 2 ^ SymBits

Sym == 0 .. (TwoW - 1)

Min(a, b) == IF a < b THEN a ELSE b

Bit(s, pos) == (s \div (2 ^ pos)) % 2

(* The source language evaluates an argument before the call that uses it. *)
(* Then(v, F) does the same: v is computed first, F runs on its value.     *)
Then(v, F(_)) == [x \in {v} |-> F(x)][v]

(***************************************************************************)
(* Bounds of the exploration                                               *)
(***************************************************************************)
MaxSeed == 2

MaxByte == 1

MaxLen == 1

MaxNoise == 1

MaxRand == 1

(***************************************************************************)
(* The operating system's random source: rng is what getrandom would       *)
(* return next.  It is outside the crate; the crate reads it only through  *)
(* Noise::generate and KeyPair::generate (feature "random").               *)
(***************************************************************************)
VARIABLE rng

(***************************************************************************)
(* field25519.rs                                                           *)
(***************************************************************************)
Fe_from_bytes(s) == s % TwoF

Fe_to_bytes(a) == a % P

Fe_add(a, b) == a + b

Fe_sub(a, b) == ((2 * P) + a - b) % P

Fe_mul(a, b) == (a * b) % P

Fe_square(a) == Fe_mul(a, a)

Fe_square_and_double(a) == Fe_add(Fe_square(a), Fe_square(a))

Fe_neg(a) == (2 * P) - a

Fe_eq(a, b) == a = b

Fe_is_zero(a) == Fe_to_bytes(a) = 0

Fe_is_negative(a) == (Fe_to_bytes(a) % 2) # 0

(* a^e by repeated squaring; st.r is the product so far, st.b the current  *)
(* square, st.e the exponent bits still to process.                        *)
Fe_pow(a, e) ==
    LET loop[st \in [r : Nat, b : Nat, e : Nat]] ==
            IF st.e = 0 THEN st.r
            ELSE loop[[r |-> IF st.e % 2 = 1 THEN Fe_mul(st.r, st.b) ELSE st.r,
                       b |-> Fe_square(st.b),
                       e |-> st.e \div 2]]
    IN  loop[[r |-> FE_ONE, b |-> a % P, e |-> e]]

Fe_invert(a) == Fe_pow(a, P - 2)

Fe_pow25523(a) == Fe_pow(a, (P - 5) \div 8)

Fe_mul32(a, n) == (a * n) % P

(***************************************************************************)
(* edwards25519.rs: point representations and conversions                  *)
(***************************************************************************)
GeP1P1_to_p2(p) ==
    [x |-> Fe_mul(p.x, p.t), y |-> Fe_mul(p.y, p.z), z |-> Fe_mul(p.z, p.t)]

GeP1P1_to_p3(p) ==
    [x |-> Fe_mul(p.x, p.t), y |-> Fe_mul(p.y, p.z), z |-> Fe_mul(p.z, p.t),
     t |-> Fe_mul(p.x, p.y)]

GeP3_from_GeP2(p) ==
    [x |-> p.x, y |-> p.y, z |-> p.z, t |-> Fe_mul(p.x, p.y)]

(* Value spaces of the projective representations (raw limb values).       *)
GeP2Repr == [x : Nat, y : Nat, z : Nat]

GeP3Repr == [x : Nat, y : Nat, z : Nat, t : Nat]

GeP2_zero == [x |-> FE_ZERO, y |-> FE_ONE, z |-> FE_ONE]

GeP3_zero == [x |-> FE_ZERO, y |-> FE_ONE, z |-> FE_ONE, t |-> FE_ZERO]

GeP2_dbl(p0) ==
    Then(p0, LAMBDA p :
        LET xx == Fe_square(p.x)
            yy == Fe_square(p.y)
            b  == Fe_square_and_double(p.z)
            a  == Fe_add(p.x, p.y)
            aa == Fe_square(a)
            y3 == Fe_add(yy, xx)
            z3 == Fe_sub(yy, xx)
            x3 == Fe_sub(aa, y3)
            t3 == Fe_sub(b, z3)
        IN  [x |-> x3, y |-> y3, z |-> z3, t |-> t3])

GeP3_to_p2(p) == [x |-> p.x, y |-> p.y, z |-> p.z]

GeP3_dbl(p) == GeP2_dbl(GeP3_to_p2(p))

GeP3_to_cached(p) ==
    [y_plus_x |-> Fe_add(p.y, p.x), y_minus_x |-> Fe_sub(p.y, p.x),
     z |-> p.z, t2d |-> Fe_mul(p.t, FE_D2)]

GeP3_add_cached(s0, r) ==
    Then(s0, LAMBDA s :
        LET a  == Fe_mul(Fe_add(s.y, s.x), r.y_plus_x)
            b  == Fe_mul(Fe_sub(s.y, s.x), r.y_minus_x)
            c  == Fe_mul(r.t2d, s.t)
            zz == Fe_mul(s.z, r.z)
            d  == Fe_add(zz, zz)
        IN  [x |-> Fe_sub(a, b), y |-> Fe_add(a, b), z |-> Fe_add(d, c),
             t |-> Fe_sub(d, c)])

GeP3_sub_cached(s0, r) ==
    Then(s0, LAMBDA s :
        LET a  == Fe_mul(Fe_add(s.y, s.x), r.y_minus_x)
            b  == Fe_mul(Fe_sub(s.y, s.x), r.y_plus_x)
            c  == Fe_mul(r.t2d, s.t)
            zz == Fe_mul(s.z, r.z)
            d  == Fe_add(zz, zz)
        IN  [x |-> Fe_sub(a, b), y |-> Fe_add(a, b), z |-> Fe_sub(d, c),
             t |-> Fe_add(d, c)])

GeP3_add_precomp(s0, r) ==
    Then(s0, LAMBDA s :
        LET a == Fe_mul(Fe_add(s.y, s.x), r.y_plus_x)
            b == Fe_mul(Fe_sub(s.y, s.x), r.y_minus_x)
            c == Fe_mul(r.xy2d, s.t)
            d == Fe_add(s.z, s.z)
        IN  [x |-> Fe_sub(a, b), y |-> Fe_add(a, b), z |-> Fe_add(d, c),
             t |-> Fe_sub(d, c)])

GeP3_sub_precomp(s0, r) ==
    Then(s0, LAMBDA s :
        LET a == Fe_mul(Fe_add(s.y, s.x), r.y_minus_x)
            b == Fe_mul(Fe_sub(s.y, s.x), r.y_plus_x)
            c == Fe_mul(r.xy2d, s.t)
            d == Fe_add(s.z, s.z)
        IN  [x |-> Fe_sub(a, b), y |-> Fe_add(a, b), z |-> Fe_sub(d, c),
             t |-> Fe_add(d, c)])

GeP3_add(a, b) == GeP1P1_to_p3(GeP3_add_cached(a, GeP3_to_cached(b)))

GeP3_sub(a, b) == GeP1P1_to_p3(GeP3_sub_cached(a, GeP3_to_cached(b)))

(***************************************************************************)
(* Decompression.  An Option is a sequence: <<>> is None, <<v>> is Some(v).*)
(***************************************************************************)
None == <<>>

Some(v) == <<v>>

(* A faulty decompression that does not test the candidate x against the   *)
(* curve equation.                                                         *)
GeP3_from_bytes_negate_unchecked(s) ==
    LET y         == Fe_from_bytes(s)
        y_squared == Fe_square(y)
        u         == Fe_sub(y_squared, FE_ONE)
        v         == Fe_add(Fe_mul(y_squared, FE_D), FE_ONE)
        x0        == Fe_mul(Fe_pow25523(Fe_mul(u, v)), u)
        x         == IF Fe_is_negative(x0) = ((s \div TwoF) # 0)
                     THEN Fe_neg(x0) ELSE x0
    IN  Some([x |-> x, y |-> y, z |-> FE_ONE, t |-> Fe_mul(x, y)])

GeP3_from_bytes_negate_vartime(s) ==
    LET y         == Fe_from_bytes(s)
        z         == FE_ONE
        y_squared == Fe_square(y)
        u         == Fe_sub(y_squared, FE_ONE)
        v         == Fe_add(Fe_mul(y_squared, FE_D), FE_ONE)
        x0        == Fe_mul(Fe_pow25523(Fe_mul(u, v)), u)
        vxx       == Fe_mul(Fe_square(x0), v)
        check     == Fe_sub(vxx, u)
        check2    == Fe_add(vxx, u)
        x1        == IF ~Fe_is_zero(check) THEN Fe_mul(x0, FE_SQRTM1) ELSE x0
        x         == IF Fe_is_negative(x1) = ((s \div TwoF) # 0)
                     THEN Fe_neg(x1) ELSE x1
    IN  IF ~Fe_is_zero(check) /\ ~Fe_is_zero(check2)
        THEN None
        ELSE Some([x |-> x, y |-> y, z |-> z, t |-> Fe_mul(x, y)])

GeP3_from_bytes_vartime(s) ==
    LET o == GeP3_from_bytes_negate_vartime(s)
    IN  IF o = None THEN None
        ELSE LET p == o[1]
             IN  Some([x |-> Fe_neg(p.x), y |-> p.y, z |-> p.z,
                       t |-> Fe_neg(p.t)])

(* A faulty encoding that drops the sign of x.                             *)
GeP3_to_bytes_unsigned(p0) ==
    Then(p0, LAMBDA p :
        LET recip == Fe_invert(p.z)
            y     == Fe_mul(p.y, recip)
        IN  Fe_to_bytes(y))

GeP3_to_bytes(p0) ==
    Then(p0, LAMBDA p :
        LET recip == Fe_invert(p.z)
            x     == Fe_mul(p.x, recip)
            y     == Fe_mul(p.y, recip)
        IN  Fe_to_bytes(y) + (IF Fe_is_negative(x) THEN TwoF ELSE 0))

GeP3_has_small_order(p0) ==
    Then(p0, LAMBDA p :
        LET recip    == Fe_invert(p.z)
            x        == Fe_mul(p.x, recip)
            y        == Fe_mul(p.y, recip)
            x_neg    == Fe_neg(x)
            y_sqrtm1 == Fe_mul(y, FE_SQRTM1)
        IN  Fe_is_zero(x) \/ Fe_is_zero(y) \/ Fe_eq(y_sqrtm1, x)
              \/ Fe_eq(y_sqrtm1, x_neg))

(***************************************************************************)
(* Scalar multiplication                                                   *)
(***************************************************************************)
GeCached_maybe_set(self, other, do_swap) == IF do_swap = 1 THEN other ELSE self

GeCachedRepr == [y_plus_x : Nat, y_minus_x : Nat, z : Nat, t2d : Nat]

PrecomputeFrom(pc0, base_cached) ==
    LET loop[st \in [pc : [0 .. 15 -> GeP3Repr], i : Nat]] ==
            LET pc == st.pc
                i  == st.i
                e  == IF i % 2 = 0
                      THEN GeP1P1_to_p3(GeP3_dbl(pc[i \div 2]))
                      ELSE GeP1P1_to_p3(GeP3_add_cached(pc[i - 1], base_cached))
            IN  IF i >= 16 THEN pc
                ELSE loop[[pc |-> [pc EXCEPT ![i] = e], i |-> i + 1]]
    IN  loop[[pc |-> pc0, i |-> 2]]

ge_precompute(base) ==
    LET pc0 == [i \in 0 .. 15 |-> IF i = 1 THEN base ELSE GeP3_zero]
        pc  == PrecomputeFrom(pc0, GeP3_to_cached(base))
    IN  [i \in 0 .. 15 |-> GeP3_to_cached(pc[i])]

(* The constant-time table lookup: every entry is visited and copied into  *)
(* t when its index equals slot.                                           *)
SelectSlot(pc, slot) ==
    LET loop[st \in [t : GeCachedRepr, i : Nat]] ==
            IF st.i >= 16 THEN st.t
            ELSE loop[[t |-> GeCached_maybe_set(st.t, pc[st.i],
                                                IF slot = st.i THEN 1 ELSE 0),
                       i |-> st.i + 1]]
    IN  loop[[t |-> pc[0], i |-> 1]]

(* One pass of the window loop of ge_scalarmult: the table entry of the     *)
(* window at st.pos is added to q; unless pos is 0, q is doubled four      *)
(* times and pos moves down by 4.                                          *)
ScalarmultStep(scalar, pc, st) ==
    Then(SelectSlot(pc, (scalar \div (2 ^ st.pos)) % 16), LAMBDA t :
    Then(GeP1P1_to_p3(GeP3_add_cached(st.q, t)), LAMBDA q1 :
        IF st.pos = 0 THEN [q |-> q1, pos |-> 0, done |-> TRUE]
        ELSE Then(GeP1P1_to_p3(GeP3_dbl(q1)), LAMBDA d1 :
             Then(GeP1P1_to_p3(GeP3_dbl(d1)), LAMBDA d2 :
             Then(GeP1P1_to_p3(GeP3_dbl(d2)), LAMBDA d3 :
                 [q    |-> GeP1P1_to_p3(GeP3_dbl(d3)),
                  pos  |-> st.pos - 4,
                  done |-> FALSE])))))

ScalarmultLoop(scalar, pc) ==
    LET loop[st \in [q : GeP3Repr, pos : Nat, done : BOOLEAN]] ==
            IF st.done THEN st.q ELSE loop[ScalarmultStep(scalar, pc, st)]
    IN  loop[[q |-> GeP3_zero, pos |-> TopWindow, done |-> FALSE]]

ge_scalarmult(scalar, base) == ScalarmultLoop(scalar, ge_precompute(base))

BasePoint == [x |-> BXP, y |-> BYP, z |-> FE_ONE, t |-> Fe_mul(BXP, BYP)]

BasePrecomputed == ge_precompute(BasePoint)

ge_scalarmult_base(scalar) == ScalarmultLoop(scalar, BasePrecomputed)

(* BI: the odd multiples B, 3B, ..., 15B of the base point, as GePrecomp.  *)
OddMultiple(i) == ge_scalarmult_base((2 * i) + 1)

ToPrecomp(p) ==
    LET recip == Fe_invert(p.z)
        x     == Fe_mul(p.x, recip)
        y     == Fe_mul(p.y, recip)
    IN  [y_plus_x |-> Fe_to_bytes(Fe_add(y, x)), y_minus_x |-> Fe_sub(y, x),
         xy2d |-> Fe_mul(Fe_mul(x, y), FE_D2)]

BI == [i \in 0 .. 7 |-> ToPrecomp(OddMultiple(i))]

(***************************************************************************)
(* GeP2::slide and GeP2::double_scalarmult_vartime                         *)
(***************************************************************************)
SlideRepr == [0 .. (SymBits - 1) -> Int]

SlideCarry(r0, k0) ==
    LET loop[st \in [r : SlideRepr, k : Nat]] ==
            IF st.k >= SymBits THEN st.r
            ELSE IF st.r[st.k] = 0 THEN [st.r EXCEPT ![st.k] = 1]
            ELSE loop[[r |-> [st.r EXCEPT ![st.k] = 0], k |-> st.k + 1]]
    IN  loop[[r |-> r0, k |-> k0]]

SlideInner(r0, i) ==
    LET loop[st \in [r : SlideRepr, b : Nat]] ==
            LET r  == st.r
                b  == st.b
                sh == r[i + b] * (2 ^ b)
            IN  IF b >= Min(7, SymBits - i) THEN r
                ELSE IF r[i + b] = 0 THEN loop[[r |-> r, b |-> b + 1]]
                ELSE IF r[i] + sh <= 15
                THEN loop[[r |-> [r EXCEPT ![i] = r[i] + sh, ![i + b] = 0],
                           b |-> b + 1]]
                ELSE IF r[i] - sh >= -15
                THEN loop[[r |-> SlideCarry([r EXCEPT ![i] = r[i] - sh], i + b),
                           b |-> b + 1]]
                ELSE r
    IN  loop[[r |-> r0, b |-> 1]]

GeP2_slide(a) ==
    LET loop[st \in [r : SlideRepr, i : Nat]] ==
            IF st.i >= SymBits THEN st.r
            ELSE loop[[r |-> IF st.r[st.i] # 0 THEN SlideInner(st.r, st.i)
                             ELSE st.r,
                       i |-> st.i + 1]]
    IN  loop[[r |-> [i \in 0 .. (SymBits - 1) |-> Bit(a, i)], i |-> 0]]

OddMultiplesOf(a_point) ==
    LET a2 == GeP1P1_to_p3(GeP3_dbl(a_point))
        loop[st \in [ai : [0 .. 7 -> GeCachedRepr], j : Nat]] ==
            IF st.j >= 8 THEN st.ai
            ELSE loop[[ai |-> [st.ai EXCEPT ![st.j] =
                                  GeP3_to_cached(GeP1P1_to_p3(
                                      GeP3_add_cached(a2, st.ai[st.j - 1])))],
                       j  |-> st.j + 1]]
    IN  loop[[ai |-> [j \in 0 .. 7 |-> GeP3_to_cached(a_point)], j |-> 1]]

FirstNonZero(aslide, bslide) ==
    LET loop[i \in Nat] ==
            IF aslide[i] # 0 \/ bslide[i] # 0 THEN i
            ELSE IF i = 0 THEN -1
            ELSE loop[i - 1]
    IN  loop[SymBits - 1]

DoubleScalarmultStep(aslide, bslide, ai, st) ==
    LET i == st.i
    IN  Then(GeP2_dbl(st.r), LAMBDA t0 :
        Then(IF aslide[i] > 0
             THEN GeP3_add_cached(GeP1P1_to_p3(t0), ai[aslide[i] \div 2])
             ELSE IF aslide[i] < 0
             THEN GeP3_sub_cached(GeP1P1_to_p3(t0), ai[(-aslide[i]) \div 2])
             ELSE t0, LAMBDA t1 :
        Then(IF bslide[i] > 0
             THEN GeP3_add_precomp(GeP1P1_to_p3(t1), BI[bslide[i] \div 2])
             ELSE IF bslide[i] < 0
             THEN GeP3_sub_precomp(GeP1P1_to_p3(t1), BI[(-bslide[i]) \div 2])
             ELSE t1, LAMBDA t2 :
            [r    |-> GeP1P1_to_p2(t2),
             i    |-> IF i = 0 THEN 0 ELSE i - 1,
             done |-> i = 0])))

DoubleScalarmultLoop(aslide, bslide, ai, first) ==
    LET loop[st \in [r : GeP2Repr, i : Nat, done : BOOLEAN]] ==
            IF st.done THEN st.r
            ELSE loop[DoubleScalarmultStep(aslide, bslide, ai, st)]
    IN  loop[[r |-> GeP2_zero, i |-> first, done |-> FALSE]]

GeP2_double_scalarmult_vartime(a_scalar, a_point, b_scalar) ==
    Then(GeP2_slide(a_scalar), LAMBDA aslide :
    Then(GeP2_slide(b_scalar), LAMBDA bslide :
    Then(OddMultiplesOf(a_point), LAMBDA ai :
    Then(FirstNonZero(aslide, bslide), LAMBDA i :
        IF i < 0 THEN GeP2_zero
        ELSE DoubleScalarmultLoop(aslide, bslide, ai, i)))))

(***************************************************************************)
(* Scalars modulo L.  A 64-byte input is the pair of symbols <<lo, hi>>.   *)
(***************************************************************************)
Wide(d) == d[1] + (TwoW * d[2])

(* A faulty reduction that stops one subtraction of l short.               *)
sc_reduce_short(s) == <<Wide(s) % (2 * L), s[2]>>

sc_reduce(s) == <<Wide(s) % L, s[2]>>

sc_reduce32(s) == sc_reduce(<<s, 0>>)[1]

(* A faulty sc_muladd that leaves the nonce c out of the sum.               *)
sc_muladd_without_c(a, b, c) == (a * b) % L

sc_muladd(a, b, c) == ((a * b) + c) % L

sc_mul(a, b) == sc_muladd(a, b, 0)

sc_sq(s) == sc_mul(s, s)

sc_sqmul(s, n, a) ==
    LET loop[st \in [t : Nat, k : Nat]] ==
            IF st.k = 0 THEN st.t
            ELSE loop[[t |-> sc_sq(st.t), k |-> st.k - 1]]
    IN  sc_mul(loop[[t |-> s, k |-> n]], a)

(* sc_invert raises s to the power L - 2 by squarings and multiplications; *)
(* the chain here is the binary expansion of L - 2, most significant bit   *)
(* first.                                                                  *)
sc_invert(s) ==
    LET e == L - 2
        loop[st \in [acc : Nat, pos : Int]] ==
            IF st.pos < 0 THEN st.acc
            ELSE loop[[acc |-> sc_sqmul(st.acc, 1,
                                        IF Bit(e, st.pos) = 1 THEN s ELSE 1),
                       pos |-> st.pos - 1]]
    IN  loop[[acc |-> 1, pos |-> SymBits - 1]]

sc_reject_noncanonical(s) == IF s < L THEN "Ok" ELSE "NonCanonical"

is_identity(s) == (s % TwoF) = 1

(***************************************************************************)
(* sha512.rs.  The compression function is scaled to a state of two        *)
(* symbols and a block of BlockLen symbols: each round multiplies the      *)
(* working state by the round constant, adds one input word and mixes the  *)
(* two halves; the feed-forward addition of the previous state is kept.    *)
(* Buffering, padding and length encoding follow the source line by line.  *)
(***************************************************************************)
IV == 434334

ROUND_CONSTANT == 1103

PadMarker == 2 ^ (SymBits - 1)

WideMod == TwoW * TwoW

State_new == IV

W_F(t, word, i) ==
    LET u == ((t * ROUND_CONSTANT) + word + i) % WideMod
    IN  (u + ((u \div TwoW) * (u % TwoW))) % WideMod

W_G(state, block) ==
    LET loop[st \in [t : Nat, i : Nat]] ==
            IF st.i > BlockLen THEN st.t
            ELSE loop[[t |-> W_F(st.t, block[st.i], st.i), i |-> st.i + 1]]
    IN  loop[[t |-> state, i |-> 1]]

State_add(t, x) == (t + x) % WideMod

State_store(state) == <<state \div TwoW, state % TwoW>>

(* State::blocks: compresses every whole block of input; the bytes left    *)
(* over (fewer than a block) are Len(input) % BlockLen.                    *)
State_blocks(state, input) ==
    LET loop[st \in [t : Nat, off : Nat]] ==
            IF Len(input) - st.off < BlockLen THEN st.t
            ELSE loop[[t   |-> State_add(W_G(st.t, SubSeq(input, st.off + 1,
                                                          st.off + BlockLen)),
                                         st.t),
                       off |-> st.off + BlockLen]]
    IN  loop[[t |-> state, off |-> 0]]

Hash_new ==
    [state |-> State_new, w |-> [i \in 1 .. BlockLen |-> 0], r |-> 0, len |-> 0]

(* A faulty update that copies the input to the start of the buffer,       *)
(* over the bytes a former call left there.                                *)
Hash_update_overwrite(self, input) ==
    LET n0  == Len(input)
        av  == BlockLen - self.r
        tc  == Min(n0, av)
        w1  == [i \in 1 .. BlockLen |->
                   IF i <= tc THEN input[i] ELSE self.w[i]]
        r1  == self.r + tc
        n   == n0 - tc
        st1 == IF r1 = BlockLen THEN State_blocks(self.state, w1) ELSE self.state
        r2  == IF r1 = BlockLen THEN 0 ELSE r1
        rb  == n % BlockLen
    IN  IF r2 = 0 /\ n > 0
        THEN [state |-> State_blocks(st1, SubSeq(input, tc + 1, n0)),
              w     |-> [i \in 1 .. BlockLen |->
                            IF i <= rb THEN input[(n0 - rb) + i] ELSE w1[i]],
              r     |-> rb,
              len   |-> self.len + n0]
        ELSE [state |-> st1, w |-> w1, r |-> r2, len |-> self.len + n0]

(* A faulty update that compresses the whole blocks of a long input but    *)
(* forgets the bytes after the last whole block.                           *)
Hash_update_drop_tail(self, input) ==
    LET n0  == Len(input)
        av  == BlockLen - self.r
        tc  == Min(n0, av)
        w1  == [i \in 1 .. BlockLen |->
                   IF i > self.r /\ i <= self.r + tc
                   THEN input[i - self.r] ELSE self.w[i]]
        r1  == self.r + tc
        n   == n0 - tc
        st1 == IF r1 = BlockLen THEN State_blocks(self.state, w1) ELSE self.state
        r2  == IF r1 = BlockLen THEN 0 ELSE r1
    IN  IF r2 = 0 /\ n > 0
        THEN [state |-> State_blocks(st1, SubSeq(input, tc + 1, n0)),
              w     |-> w1,
              r     |-> 0,
              len   |-> self.len + n0]
        ELSE [state |-> st1, w |-> w1, r |-> r2, len |-> self.len + n0]

Hash_update(self, input) ==
    LET n0  == Len(input)
        av  == BlockLen - self.r
        tc  == Min(n0, av)
        w1  == [i \in 1 .. BlockLen |->
                   IF i > self.r /\ i <= self.r + tc
                   THEN input[i - self.r] ELSE self.w[i]]
        r1  == self.r + tc
        n   == n0 - tc
        st1 == IF r1 = BlockLen THEN State_blocks(self.state, w1) ELSE self.state
        r2  == IF r1 = BlockLen THEN 0 ELSE r1
        rb  == n % BlockLen
    IN  IF r2 = 0 /\ n > 0
        THEN [state |-> State_blocks(st1, SubSeq(input, tc + 1, n0)),
              w     |-> [i \in 1 .. BlockLen |->
                            IF i <= rb THEN input[(n0 - rb) + i] ELSE w1[i]],
              r     |-> rb,
              len   |-> self.len + n0]
        ELSE [state |-> st1, w |-> w1, r |-> r2, len |-> self.len + n0]

Hash_finalize(self) ==
    LET r      == IF self.r < BlockLen - 1 THEN BlockLen ELSE 2 * BlockLen
        bits   == self.len * 8
        padded == [i \in 1 .. r |->
                      IF i <= self.r THEN self.w[i]
                      ELSE IF i = r THEN bits % TwoW
                      ELSE IF i = self.r + 1 THEN PadMarker
                      ELSE 0]
    IN  State_store(State_blocks(self.state, padded))

Hash_hash(input) == Hash_finalize(Hash_update(Hash_new, input))

(***************************************************************************)
(* ed25519.rs.  A secret key is <<seed, pk>>, a signature is <<R, S>>, a   *)
(* 64-byte hash output is <<first half, second half>>.  Result values are  *)
(* records: Ok(v) carries the value, Err(e) the error kind.                *)
(***************************************************************************)
Ok(v) == [tag |-> "Ok", val |-> v]

Err(e) == [tag |-> e, val |-> 0]

IsOk(res) == res.tag = "Ok"

(* A faulty clamp that clears two low bits instead of three.               *)
KeyPair_clamp_two_bits(scalar) ==
    (((scalar \div 4) * 4) % (2 ^ (SymBits - 2))) + (2 ^ (SymBits - 2))

KeyPair_clamp(scalar) ==
    (((scalar \div 8) * 8) % (2 ^ (SymBits - 2))) + (2 ^ (SymBits - 2))

KeyPair_split(bytes, reduce, clamp) ==
    LET s1 == IF clamp THEN KeyPair_clamp(bytes[1]) ELSE bytes[1]
        s2 == IF reduce THEN sc_reduce32(s1) ELSE s1
    IN  <<s2, bytes[2]>>

(* from_seed panics on the all-zero seed.                                  *)
(* A faulty from_seed that derives a key pair from the all-zero seed too.   *)
KeyPair_from_seed_unchecked(seed) ==
    Then(Hash_hash(<<seed>>), LAMBDA hash_output :
    Then(KeyPair_split(hash_output, FALSE, TRUE)[1], LAMBDA scalar :
    Then(GeP3_to_bytes(ge_scalarmult_base(scalar)), LAMBDA pk :
        Ok([pk |-> pk, sk |-> <<seed, pk>>]))))

KeyPair_from_seed(seed) ==
    IF seed = 0 THEN Err("panic")
    ELSE Then(Hash_hash(<<seed>>), LAMBDA hash_output :
         Then(KeyPair_split(hash_output, FALSE, TRUE)[1], LAMBDA scalar :
         Then(GeP3_to_bytes(ge_scalarmult_base(scalar)), LAMBDA pk :
             Ok([pk |-> pk, sk |-> <<seed, pk>>]))))

(***************************************************************************)
(***************************************************************************)
(* Destruction.  Mem::wipe overwrites the buffer it receives with zeros.   *)
(* Each Drop impl passes it a field by value, self.0 or self.az, which for *)
(* a byte array is a copy of the field: the copy is wiped and the field    *)
(* keeps its bytes.  Seed derives Copy and has no Drop impl.  Each         *)
(* operator returns the memory of the value once it is dropped.            *)
(***************************************************************************)
Mem_wipe(x) == [i \in DOMAIN x |-> 0]

Seed_drop(self) == self

SecretKey_drop(self) ==
    LET passed == self IN Then(Mem_wipe(passed), LAMBDA wiped : self)

Blind_drop(self) ==
    LET passed == self IN Then(Mem_wipe(passed), LAMBDA wiped : self)

BlindSecretKey_drop(self) ==
    LET passed1 == self.prefix
        passed2 == <<self.blind_scalar>>
    IN  Then(Mem_wipe(passed1), LAMBDA wiped1 :
        Then(Mem_wipe(passed2), LAMBDA wiped2 : self))

SigningState_drop(self) ==
    LET passed1 == self.az
        passed2 == self.nonce
    IN  Then(Mem_wipe(passed1), LAMBDA wiped1 :
        Then(Mem_wipe(passed2), LAMBDA wiped2 : self))

X25519_SecretKey_drop(self) ==
    LET passed == self IN Then(Mem_wipe(passed), LAMBDA wiped : self)

DHOutput_drop(self) ==
    LET passed == self IN Then(Mem_wipe(passed), LAMBDA wiped : self)

(* Constructors.  A slice is a sequence; Seed, Noise, Blind and PublicKey  *)
(* hold one element, SecretKey and Signature two.                          *)
(***************************************************************************)
Seed_from_slice(seed) ==
    IF Len(seed) # 1 THEN Err("InvalidSeed") ELSE Ok(seed[1])

Noise_from_slice(noise) ==
    IF Len(noise) # 1 THEN Err("InvalidSeed") ELSE Ok(noise[1])

Blind_from_slice(blind) ==
    IF Len(blind) # 1 THEN Err("InvalidBlind") ELSE Ok(blind[1])

PublicKey_new(pk) == pk

(* A faulty from_slice that reports a wrong length as InvalidSignature.     *)
PublicKey_from_slice_other_error(pk) ==
    IF Len(pk) # 1 THEN Err("InvalidSignature") ELSE Ok(PublicKey_new(pk[1]))

PublicKey_from_slice(pk) ==
    IF Len(pk) # 1 THEN Err("InvalidPublicKey") ELSE Ok(PublicKey_new(pk[1]))

SecretKey_new(sk) == sk

SecretKey_from_slice(sk) ==
    IF Len(sk) # 2 THEN Err("InvalidSecretKey")
    ELSE Ok(SecretKey_new(<<sk[1], sk[2]>>))

Signature_from_slice(signature) ==
    IF Len(signature) # 2 THEN Err("InvalidSignature")
    ELSE Ok(<<signature[1], signature[2]>>)

(* pem.rs: the DER header of a public key, cut to its first two bytes, and *)
(* PublicKey::from_der on a header followed by the key.                    *)
DER_HEADER_PK == <<48, 42>>

PublicKey_from_der(der) ==
    IF \/ Len(der) # Len(DER_HEADER_PK) + 1
       \/ SubSeq(der, 1, Len(DER_HEADER_PK)) # DER_HEADER_PK
    THEN Err("ParseError")
    ELSE Ok(PublicKey_new(der[Len(der)]))

(* SecretKey::public_key and SecretKey::seed: the halves of the 64 bytes.   *)
SecretKey_public_key(self) == self[2]

SecretKey_seed(self) == self[1]

(* SecretKey::validate_public_key.  KeyPair::from_seed panics inside it     *)
(* when the seed half is all-zero.                                          *)
SecretKey_validate_public_key(self, pk) ==
    Then(KeyPair_from_seed(SecretKey_seed(self)), LAMBDA k :
        IF ~IsOk(k) THEN k
        ELSE IF k.val.pk # pk THEN Err("InvalidPublicKey")
        ELSE Ok(0))

KeyPair_validate(self) == SecretKey_validate_public_key(self.sk, self.pk)

(* A faulty from_slice that derives the public key from the seed half.      *)
KeyPair_from_slice_derived(bytes) ==
    Then(SecretKey_from_slice(bytes), LAMBDA sk :
        IF ~IsOk(sk) THEN sk ELSE KeyPair_from_seed(SecretKey_seed(sk.val)))

(* KeyPair::from_slice takes the public key from the second half.          *)
KeyPair_from_slice(bytes) ==
    Then(SecretKey_from_slice(bytes), LAMBDA sk :
        IF ~IsOk(sk) THEN sk
        ELSE Ok([pk |-> SecretKey_public_key(sk.val), sk |-> sk.val]))

(* A write through DerefMut for SecretKey: byte i becomes v.                *)
SecretKey_deref_mut(self, i, v) == [self EXCEPT ![i] = v]

SigningState_new(nonce, az, pk_) ==
    Then(ge_scalarmult_base(nonce[1]), LAMBDA r :
    Then(<<GeP3_to_bytes(r), pk_>>, LAMBDA prefix :
        [hasher |-> Hash_update(Hash_new, prefix), nonce |-> nonce, az |-> az]))

(* A faulty absorb that starts the hasher afresh, losing the prefix and    *)
(* the chunks absorbed before.                                             *)
SigningState_absorb_restart(self, chunk) ==
    [self EXCEPT !.hasher = Hash_update(Hash_new, chunk)]

SigningState_absorb(self, chunk) ==
    [self EXCEPT !.hasher = Hash_update(self.hasher, chunk)]

(* A faulty sign that derives the nonce point from the bytes absorbed.     *)
SigningState_sign_message_nonce(self) ==
    Then(sc_reduce(Hash_finalize(self.hasher)), LAMBDA hram :
    Then(ge_scalarmult_base(hram[1]), LAMBDA r :
        <<GeP3_to_bytes(r), sc_muladd(hram[1], self.az[1], self.nonce[1])>>))

SigningState_sign(self) ==
    Then(ge_scalarmult_base(self.nonce[1]), LAMBDA r :
    Then(sc_reduce(Hash_finalize(self.hasher)), LAMBDA hram :
        <<GeP3_to_bytes(r), sc_muladd(hram[1], self.az[1], self.nonce[1])>>))

SecretKey_az(seed) ==
    Then(Hash_hash(<<seed>>), LAMBDA hash_output :
        <<KeyPair_clamp(hash_output[1]), hash_output[2]>>)

(* additional_noise is Some(bytes from getrandom) when the crate is built  *)
(* with the feature "random", and None otherwise.                          *)
SecretKey_sign_incremental(sk, noise, additional_noise) ==
    LET seed == sk[1]
        pk   == sk[2]
    IN  Then(SecretKey_az(seed), LAMBDA az :
        Then(IF additional_noise # None
             THEN Hash_update(Hash_new, <<additional_noise[1]>>)
             ELSE Hash_new, LAMBDA st0 :
        Then(Hash_update(st0, <<noise>>), LAMBDA st1 :
        Then(Hash_update(st1, <<seed>>), LAMBDA st2 :
        Then(Hash_finalize(st2), LAMBDA nonce :
            SigningState_new(nonce, az, pk))))))

(* A faulty nonce derivation that leaves the hash output unreduced.        *)
SecretKey_sign_nonce_unreduced(az, message, noise) ==
    Then(IF noise # None
         THEN Hash_update(Hash_update(Hash_new, <<noise[1]>>), az)
         ELSE Hash_update(Hash_new, <<az[2]>>), LAMBDA h0 :
    Then(Hash_update(h0, message), LAMBDA h1 :
        Hash_finalize(h1)))

(* A faulty nonce derivation that, given no noise, draws noise from the    *)
(* random source.                                                          *)
SecretKey_sign_nonce_getrandom(az, message, noise) ==
    Then(IF noise # None
         THEN Hash_update(Hash_update(Hash_new, <<noise[1]>>), az)
         ELSE Hash_update(Hash_update(Hash_new, <<rng>>), az), LAMBDA h0 :
    Then(Hash_update(h0, message), LAMBDA h1 :
        sc_reduce(Hash_finalize(h1))))

SecretKey_sign_nonce(az, message, noise) ==
    Then(IF noise # None
         THEN Hash_update(Hash_update(Hash_new, <<noise[1]>>), az)
         ELSE Hash_update(Hash_new, <<az[2]>>), LAMBDA h0 :
    Then(Hash_update(h0, message), LAMBDA h1 :
        sc_reduce(Hash_finalize(h1))))

(* A faulty constructor that looks at the public key before the scalar.    *)
VerifyingState_new_key_first(pk, signature) ==
    LET r == signature[1]
        s == signature[2]
    IN  IF is_identity(pk) \/ pk = 0 THEN Err("WeakPublicKey")
        ELSE IF sc_reject_noncanonical(s) # "Ok"
        THEN Err(sc_reject_noncanonical(s))
        ELSE Then(GeP3_from_bytes_negate_vartime(pk), LAMBDA a :
             IF a = None THEN Err("InvalidPublicKey")
             ELSE Then(Hash_update(Hash_new, <<r>>), LAMBDA h0 :
                  Then(Hash_update(h0, <<pk>>), LAMBDA hasher :
                      Ok([hasher |-> hasher, signature |-> signature,
                          a |-> a[1]]))))

VerifyingState_new(pk, signature) ==
    LET r == signature[1]
        s == signature[2]
    IN  IF sc_reject_noncanonical(s) # "Ok" THEN Err(sc_reject_noncanonical(s))
        ELSE IF is_identity(pk) \/ pk = 0 THEN Err("WeakPublicKey")
        ELSE Then(GeP3_from_bytes_negate_vartime(pk), LAMBDA a :
             IF a = None THEN Err("InvalidPublicKey")
             ELSE Then(Hash_update(Hash_new, <<r>>), LAMBDA h0 :
                  Then(Hash_update(h0, <<pk>>), LAMBDA hasher :
                      Ok([hasher |-> hasher, signature |-> signature,
                          a |-> a[1]]))))

VerifyingState_absorb(self, chunk) ==
    [self EXCEPT !.hasher = Hash_update(self.hasher, chunk)]

(* A faulty verify that reports a failed equation as InvalidSignature.     *)
VerifyingState_verify_other_error(self) ==
    Then(GeP3_from_bytes_vartime(self.signature[1]), LAMBDA expected_r :
        IF expected_r = None THEN Err("InvalidSignature")
        ELSE Then(sc_reduce(Hash_finalize(self.hasher)), LAMBDA hash :
             Then(GeP2_double_scalarmult_vartime(hash[1], self.a,
                                                 self.signature[2]), LAMBDA r :
             Then(GeP3_sub(expected_r[1], GeP3_from_GeP2(r)), LAMBDA diff :
                 IF GeP3_has_small_order(diff) THEN Ok(0)
                 ELSE Err("InvalidSignature")))))

VerifyingState_verify(self) ==
    Then(GeP3_from_bytes_vartime(self.signature[1]), LAMBDA expected_r :
        IF expected_r = None THEN Err("InvalidSignature")
        ELSE Then(sc_reduce(Hash_finalize(self.hasher)), LAMBDA hash :
             Then(GeP2_double_scalarmult_vartime(hash[1], self.a,
                                                 self.signature[2]), LAMBDA r :
             Then(GeP3_sub(expected_r[1], GeP3_from_GeP2(r)), LAMBDA diff :
                 IF GeP3_has_small_order(diff) THEN Ok(0)
                 ELSE Err("SignatureMismatch")))))

PublicKey_verify_incremental(pk, signature) == VerifyingState_new(pk, signature)

PublicKey_verify(pk, message, signature) ==
    Then(VerifyingState_new(pk, signature), LAMBDA st :
        IF ~IsOk(st) THEN st
        ELSE Then(VerifyingState_absorb(st.val, message), LAMBDA st1 :
                 VerifyingState_verify(st1)))

(* self_verify is TRUE when the crate is built with the feature            *)
(* "self-verify": the new signature is verified and a failure panics.      *)
(* A faulty sign that returns the signature without verifying it.          *)
SecretKey_sign_unverified(sk, message, noise, self_verify) ==
    LET seed == sk[1]
        pk   == sk[2]
    IN  Then(SecretKey_az(seed), LAMBDA az :
        Then(SecretKey_sign_nonce(az, message, noise), LAMBDA nonce :
        Then(SigningState_new(nonce, az, pk), LAMBDA st0 :
        Then(SigningState_absorb(st0, message), LAMBDA st :
            Ok(SigningState_sign(st))))))

SecretKey_sign(sk, message, noise, self_verify) ==
    LET seed == sk[1]
        pk   == sk[2]
    IN  Then(SecretKey_az(seed), LAMBDA az :
        Then(SecretKey_sign_nonce(az, message, noise), LAMBDA nonce :
        Then(SigningState_new(nonce, az, pk), LAMBDA st0 :
        Then(SigningState_absorb(st0, message), LAMBDA st :
        Then(SigningState_sign(st), LAMBDA signature :
            IF self_verify /\ ~IsOk(PublicKey_verify(pk, message, signature))
            THEN Err("panic")
            ELSE Ok(signature))))))

(***************************************************************************)
(* ed25519.rs, module blind_keys.  A blind is a 32-byte symbol, a context  *)
(* a sequence of bytes.  A BlindSecretKey is the record of its prefix (two *)
(* symbols), its blind scalar and its blind public key.                    *)
(***************************************************************************)
(* The blinding factor: the hash of blind, a zero byte and the context,    *)
(* split with reduce = true and clamp = false.                             *)
BlindFactor(blind, ctx) ==
    Then(Hash_update(Hash_new, <<blind>>), LAMBDA h0 :
    Then(Hash_update(h0, <<0>>), LAMBDA h1 :
    Then(Hash_update(h1, ctx), LAMBDA hx :
        KeyPair_split(Hash_finalize(hx), TRUE, FALSE))))

PublicKey_blind(pk, blind, ctx) ==
    Then(BlindFactor(blind, ctx), LAMBDA split :
    Then(GeP3_from_bytes_vartime(pk), LAMBDA pk_p3 :
        IF pk_p3 = None THEN Err("InvalidPublicKey")
        ELSE Ok(GeP3_to_bytes(ge_scalarmult(split[1], pk_p3[1])))))

(* A faulty unblind that multiplies by the blinding factor again instead   *)
(* of by its inverse.                                                      *)
BlindPublicKey_unblind_by_factor(bpk, blind, ctx) ==
    Then(GeP3_from_bytes_vartime(bpk), LAMBDA pk_p3 :
        IF pk_p3 = None THEN Err("InvalidPublicKey")
        ELSE Then(BlindFactor(blind, ctx)[1], LAMBDA blind_factor :
                 Ok(GeP3_to_bytes(ge_scalarmult(blind_factor, pk_p3[1])))))

BlindPublicKey_unblind(bpk, blind, ctx) ==
    Then(GeP3_from_bytes_vartime(bpk), LAMBDA pk_p3 :
        IF pk_p3 = None THEN Err("InvalidPublicKey")
        ELSE Then(BlindFactor(blind, ctx)[1], LAMBDA blind_factor :
             Then(sc_invert(blind_factor), LAMBDA inverse :
                 Ok(GeP3_to_bytes(ge_scalarmult(inverse, pk_p3[1]))))))

KeyPair_blind(self, blind, ctx) ==
    Then(KeyPair_split(Hash_hash(<<self.sk[1]>>), FALSE, TRUE), LAMBDA s1 :
    Then(BlindFactor(blind, ctx), LAMBDA s2 :
    Then(sc_mul(s1[1], s2[1]), LAMBDA blind_scalar :
    Then(GeP3_to_bytes(ge_scalarmult_base(blind_scalar)), LAMBDA blind_pk :
        [blind_pk |-> blind_pk,
         blind_sk |-> [prefix       |-> <<s1[2], s2[2]>>,
                       blind_scalar |-> blind_scalar,
                       blind_pk     |-> blind_pk]]))))

(* The signature of a challenge that leaves the blind public key out.       *)
BlindSecretKey_sign_challenge_without_key(self, message, noise, self_verify) ==
    Then(IF noise # None
         THEN Hash_update(Hash_update(Hash_new, <<noise[1]>>), self.prefix)
         ELSE Hash_update(Hash_new, self.prefix), LAMBDA h0 :
    Then(sc_reduce(Hash_finalize(Hash_update(h0, message))), LAMBDA nonce :
    Then(GeP3_to_bytes(ge_scalarmult_base(nonce[1])), LAMBDA r :
    Then(Hash_update(Hash_update(Hash_new, <<r>>), message),
         LAMBDA hasher :
    Then(sc_reduce(Hash_finalize(hasher)), LAMBDA hram :
    Then(<<r, sc_muladd(hram[1], self.blind_scalar, nonce[1])>>,
         LAMBDA signature :
        IF self_verify
           /\ ~IsOk(PublicKey_verify(self.blind_pk, message, signature))
        THEN Err("panic")
        ELSE Ok(signature)))))))

BlindSecretKey_sign(self, message, noise, self_verify) ==
    Then(IF noise # None
         THEN Hash_update(Hash_update(Hash_new, <<noise[1]>>), self.prefix)
         ELSE Hash_update(Hash_new, self.prefix), LAMBDA h0 :
    Then(sc_reduce(Hash_finalize(Hash_update(h0, message))), LAMBDA nonce :
    Then(GeP3_to_bytes(ge_scalarmult_base(nonce[1])), LAMBDA r :
    Then(Hash_update(Hash_update(Hash_new, <<r, self.blind_pk>>), message),
         LAMBDA hasher :
    Then(sc_reduce(Hash_finalize(hasher)), LAMBDA hram :
    Then(<<r, sc_muladd(hram[1], self.blind_scalar, nonce[1])>>,
         LAMBDA signature :
        IF self_verify
           /\ ~IsOk(PublicKey_verify(self.blind_pk, message, signature))
        THEN Err("panic")
        ELSE Ok(signature)))))))

(***************************************************************************)
(* x25519.rs.  Public keys, secret keys and DH outputs are 32-byte values. *)
(***************************************************************************)
ge_to_x25519_vartime(s) ==
    Then(GeP3_from_bytes_vartime(s), LAMBDA p :
        IF p = None THEN None
        ELSE LET yed    == p[1].y
                 x_mont == Fe_mul(Fe_add(FE_ONE, yed),
                                  Fe_invert(Fe_sub(FE_ONE, yed)))
             IN  Some(Fe_to_bytes(x_mont)))

(* Fe::reject_noncanonical.  The comparison runs on the low FieldBits bits *)
(* and requires the top bit clear, as the byte loop of the source does.    *)
Fe_reject_noncanonical(s) ==
    IF s >= P /\ s < TwoF THEN "NonCanonical" ELSE "Ok"

Fe_cswap2(a0, b0, a1, b1, c) ==
    IF c = 1 THEN <<b0, a0, b1, a1>> ELSE <<a0, b0, a1, b1>>

LadderStep(x1, s, st) ==
    LET bit == Bit(s, st.pos)
        sw  == Fe_cswap2(st.x2, st.x3, st.z2, st.z3, (st.swap + bit) % 2)
        x2  == sw[1]
        x3  == sw[2]
        z2  == sw[3]
        z3  == sw[4]
        a   == Fe_add(x2, z2)
        b   == Fe_sub(x2, z2)
        aa  == Fe_square(a)
        bb  == Fe_square(b)
        e   == Fe_sub(aa, bb)
        da  == Fe_mul(Fe_sub(x3, z3), a)
        cb  == Fe_mul(Fe_add(x3, z3), b)
    IN  [x2   |-> Fe_mul(aa, bb),
         z2   |-> Fe_mul(e, Fe_add(bb, Fe_mul32(e, A24))),
         x3   |-> Fe_square(Fe_add(da, cb)),
         z3   |-> Fe_mul(x1, Fe_square(Fe_sub(da, cb))),
         swap |-> bit,
         pos  |-> IF st.pos = 0 THEN 0 ELSE st.pos - 1,
         done |-> st.pos = 0]

(* A faulty ladder that returns its output without testing it for zero.   *)
X25519_ladder_unchecked(pk, s, bits) ==
    LET x1 == Fe_from_bytes(pk)
        loop[st \in [x2 : Nat, z2 : Nat, x3 : Nat, z3 : Nat, swap : {0, 1},
                     pos : Nat, done : BOOLEAN]] ==
            IF st.done THEN st ELSE loop[LadderStep(x1, s, st)]
    IN  Then(loop[[x2 |-> FE_ONE, z2 |-> FE_ZERO, x3 |-> x1, z3 |-> FE_ONE,
                   swap |-> 0, pos |-> bits - 1, done |-> FALSE]], LAMBDA fin :
        Then(Fe_cswap2(fin.x2, fin.x3, fin.z2, fin.z3, fin.swap), LAMBDA sw2 :
        Then(Fe_mul(sw2[1], Fe_invert(sw2[3])), LAMBDA out :
            Ok(Fe_to_bytes(out)))))

X25519_ladder(pk, s, bits) ==
    LET x1 == Fe_from_bytes(pk)
        loop[st \in [x2 : Nat, z2 : Nat, x3 : Nat, z3 : Nat, swap : {0, 1},
                     pos : Nat, done : BOOLEAN]] ==
            IF st.done THEN st ELSE loop[LadderStep(x1, s, st)]
    IN  Then(loop[[x2 |-> FE_ONE, z2 |-> FE_ZERO, x3 |-> x1, z3 |-> FE_ONE,
                   swap |-> 0, pos |-> bits - 1, done |-> FALSE]], LAMBDA fin :
        Then(Fe_cswap2(fin.x2, fin.x3, fin.z2, fin.z3, fin.swap), LAMBDA sw2 :
        Then(Fe_mul(sw2[1], Fe_invert(sw2[3])), LAMBDA out :
            IF Fe_is_zero(out) THEN Err("WeakPublicKey")
            ELSE Ok(Fe_to_bytes(out)))))

X25519_clear_cofactor(pk) == X25519_ladder(pk, 8, 4)

X25519_clamped(sk) ==
    (((sk \div 8) * 8) % (2 ^ (SymBits - 2))) + (2 ^ (SymBits - 2))

(* A faulty dh that multiplies by the secret key as given, unclamped.      *)
X25519_dh_unclamped(pk, sk) == X25519_ladder(pk, sk, FieldBits)

X25519_dh(pk, sk) == X25519_ladder(pk, X25519_clamped(sk), FieldBits)

(* A faulty unclamped_mul that clamps the scalar as dh does.                *)
X25519_unclamped_mul_clamped(pk, sk) ==
    Then(X25519_clear_cofactor(pk), LAMBDA cleared :
        IF ~IsOk(cleared) THEN cleared
        ELSE X25519_ladder(pk, X25519_clamped(sk), SymBits))

X25519_unclamped_mul(pk, sk) ==
    Then(X25519_clear_cofactor(pk), LAMBDA cleared :
        IF ~IsOk(cleared) THEN cleared ELSE X25519_ladder(pk, sk, SymBits))

X25519_base_point == Fe_to_bytes(FE_CURVE25519_BASEPOINT)

X25519_recover_public_key(sk) ==
    X25519_ladder(X25519_base_point, X25519_clamped(sk), FieldBits)

(* KeyPair::generate, with sk the bytes getrandom returned.  It panics on *)
(* a secret key that reads as the field element zero and on a weak public  *)
(* key.                                                                    *)
X25519_KeyPair_generate(sk) ==
    IF Fe_is_zero(Fe_from_bytes(sk)) THEN Err("panic")
    ELSE Then(X25519_recover_public_key(sk), LAMBDA pk :
             IF ~IsOk(pk) THEN Err("panic")
             ELSE Ok([pk |-> pk.val, sk |-> sk]))

X25519_validate_public_key(sk, pk) ==
    LET recovered_pk == X25519_recover_public_key(sk)
    IN  IF ~IsOk(recovered_pk) THEN recovered_pk
        ELSE IF recovered_pk.val # pk THEN Err("InvalidPublicKey")
        ELSE Ok(0)

X25519_PublicKey_from_slice(pk) ==
    IF Fe_reject_noncanonical(pk) # "Ok" THEN Err(Fe_reject_noncanonical(pk))
    ELSE Ok(pk)

X25519_KeyPair_validate(self) == X25519_validate_public_key(self.sk, self.pk)

(* PublicKey::from_slice on a slice of any length: a slice is a sequence   *)
(* of 32-byte symbols, and the right length is one symbol.                 *)
X25519_PublicKey_from_any_slice(pk) ==
    IF Len(pk) # 1 THEN Err("InvalidPublicKey")
    ELSE X25519_PublicKey_from_slice(pk[1])

X25519_SecretKey_from_ed25519(edsk) == Ok(SecretKey_az(edsk[1])[1])

X25519_PublicKey_from_ed25519(edpk) ==
    Then(ge_to_x25519_vartime(edpk), LAMBDA m :
        IF m = None THEN Err("InvalidPublicKey")
        ELSE Then(X25519_PublicKey_from_slice(m[1]), LAMBDA pk :
             IF ~IsOk(pk) THEN pk
             ELSE Then(X25519_clear_cofactor(pk.val), LAMBDA cleared :
                  IF ~IsOk(cleared) THEN cleared ELSE pk)))

X25519_KeyPair_from_ed25519(edkp) ==
    Then(X25519_PublicKey_from_ed25519(edkp.pk), LAMBDA pk :
        IF ~IsOk(pk) THEN pk
        ELSE Then(X25519_SecretKey_from_ed25519(edkp.sk), LAMBDA sk :
             IF ~IsOk(sk) THEN sk
             ELSE Ok([pk |-> pk.val, sk |-> sk.val])))

(***************************************************************************)
(* State.                                                                  *)
(*   features    the cargo features the crate was built with               *)
(*   kp          the Ed25519 key pair, once KeyPair::from_seed has run     *)
(*   message     the message given to sign, or the bytes absorbed so far   *)
(*   noise       the noise given to sign or sign_incremental               *)
(*   sst         the SigningState of a streaming signature in progress     *)
(*   schunks     how many chunks the SigningState has absorbed             *)
(*   signature   the signature returned by sign or SigningState::sign      *)
(*   again       the signature returned by a further call of sign          *)
(*   call_rng    the values rng had at the calls of sign, in order         *)
(*   panicked    a call has panicked                                       *)
(*   vpk, vsignature, vmessage   what the verifier was given               *)
(*   vst         the VerifyingState of a streaming verification            *)
(*   vchunks     how many chunks the VerifyingState has absorbed           *)
(*   vapi        the call the verifier made: verify or verify_incremental  *)
(*   vresult     what the verification returned                            *)
(*   xa, xb      two X25519 key pairs                                      *)
(*   out_a, out_b   what dh returned to each side                          *)
(*   xcall       the last call on an X25519 public key and its result      *)
(*   blind, ctx  the blind and the context given to blind                  *)
(*   bkp         the BlindKeyPair returned by KeyPair::blind               *)
(*   bpk         what PublicKey::blind returned                            *)
(*   unblinded   what BlindPublicKey::unblind returned, and for which key  *)
(***************************************************************************)
VARIABLES features, kp, message, noise, sst, schunks, signature, again,
          call_rng, panicked, vpk, vsignature, vst, vchunks, vmessage, vapi,
          vresult, xa, xb, out_a, out_b, xcall, blind, ctx, bkp, bpk,
          unblinded

vars == <<features, rng, kp, message, noise, sst, schunks, signature, again,
          call_rng, panicked, vpk, vsignature, vst, vchunks, vmessage, vapi,
          vresult, xa, xb, out_a, out_b, xcall, blind, ctx, bkp, bpk,
          unblinded>>

signer == <<kp, message, noise, sst, schunks, signature, again, call_rng>>

verifier == <<vpk, vsignature, vst, vchunks, vmessage, vapi, vresult>>

x25519 == <<xa, xb, out_a, out_b, xcall>>

blinding == <<blind, ctx, bkp, bpk, unblinded>>

Bytes == 0 .. MaxByte

SeqsUpTo(n) == UNION {[1 .. k -> Bytes] : k \in 0 .. n}

Msgs == SeqsUpTo(MaxLen)

NoiseOpts == {None} \cup {Some(n) : n \in 0 .. MaxNoise}

Rand == 0 .. MaxRand

Features == [random : BOOLEAN, self_verify : BOOLEAN]

(***************************************************************************)
(* Single-shot signing and verification with an honest key pair.           *)
(***************************************************************************)
Init ==
    /\ features \in Features
    /\ rng = 0
    /\ kp = None
    /\ message = << >>
    /\ noise = None
    /\ sst = None
    /\ schunks = 0
    /\ signature = None
    /\ again = None
    /\ call_rng = << >>
    /\ panicked = FALSE
    /\ vpk = 0
    /\ vsignature = None
    /\ vst = None
    /\ vchunks = 0
    /\ vmessage = << >>
    /\ vapi = ""
    /\ vresult = None
    /\ xa = None
    /\ xb = None
    /\ out_a = None
    /\ out_b = None
    /\ xcall = None
    /\ blind = 0
    /\ ctx = << >>
    /\ bkp = None
    /\ bpk = None
    /\ unblinded = None

(* The environment: the random source moves on.                            *)
Entropy ==
    /\ \E r \in Rand \ {rng} : rng' = r
    /\ UNCHANGED <<features, panicked, signer, verifier, x25519, blinding>>

(* KeyPair::from_seed(seed)                                                *)
FromSeed(seed) ==
    /\ kp = None
    /\ ~panicked
    /\ LET res == KeyPair_from_seed(seed)
       IN  /\ kp' = IF IsOk(res) THEN Some(res.val) ELSE None
           /\ panicked' = ~IsOk(res)
    /\ UNCHANGED <<features, rng, message, noise, sst, schunks, signature,
                   again, call_rng, verifier, x25519, blinding>>

(* kp.sk.sign(m, n)                                                        *)
Sign(m, n) ==
    /\ kp # None
    /\ sst = None
    /\ signature = None
    /\ LET res == SecretKey_sign(kp[1].sk, m, n, features.self_verify)
       IN  /\ signature' = IF IsOk(res) THEN Some(res.val) ELSE None
           /\ panicked' = ~IsOk(res)
    /\ message' = m
    /\ noise' = n
    /\ call_rng' = <<rng>>
    /\ UNCHANGED <<features, rng, kp, sst, schunks, again, verifier, x25519,
                   blinding>>

(* A further call kp.sk.sign(message, noise) with the arguments of the     *)
(* signature already made.                                                 *)
SignAgain ==
    /\ signature # None
    /\ again = None
    /\ LET res == SecretKey_sign(kp[1].sk, message, noise,
                                 features.self_verify)
       IN  /\ again' = IF IsOk(res) THEN Some(res.val) ELSE None
           /\ panicked' = (panicked \/ ~IsOk(res))
    /\ call_rng' = Append(call_rng, rng)
    /\ UNCHANGED <<features, rng, kp, message, noise, sst, schunks, signature,
                   verifier, x25519, blinding>>

(* pk.verify(m, &sig)                                                      *)
Verify(pk, m, sig) ==
    /\ vapi = ""
    /\ vpk' = pk
    /\ vmessage' = m
    /\ vsignature' = Some(sig)
    /\ vapi' = "verify"
    /\ vresult' = Some(PublicKey_verify(pk, m, sig))
    /\ UNCHANGED <<features, rng, panicked, signer, vst, vchunks, x25519, blinding>>

(* kp.pk.verify(m, &signature) with the signature the signer made          *)
VerifyOwn ==
    /\ signature # None
    /\ \E m \in Msgs : Verify(kp[1].pk, m, signature[1])

Next ==
    \/ \E seed \in 0 .. MaxSeed : FromSeed(seed)
    \/ \E m \in Msgs, n \in NoiseOpts : Sign(m, n)
    \/ VerifyOwn

Spec == Init /\ [][Next]_vars

(***************************************************************************)
(* Signing the same message twice while the random source moves on.        *)
(***************************************************************************)
NextRepeat ==
    \/ Entropy
    \/ \E seed \in 0 .. MaxSeed : FromSeed(seed)
    \/ \E m \in Msgs, n \in NoiseOpts : Sign(m, n)
    \/ SignAgain

SpecRepeat == Init /\ [][NextRepeat]_vars

(***************************************************************************)
(* Streaming verification                                                  *)
(***************************************************************************)
(* pk.verify_incremental(&sig)                                             *)
VerifyIncremental(pk, sig) ==
    /\ vapi = ""
    /\ LET res == PublicKey_verify_incremental(pk, sig)
       IN  /\ vst' = IF IsOk(res) THEN Some(res.val) ELSE None
           /\ vresult' = IF IsOk(res) THEN None ELSE Some(res)
    /\ vpk' = pk
    /\ vsignature' = Some(sig)
    /\ vchunks' = 0
    /\ vmessage' = << >>
    /\ vapi' = "verify_incremental"
    /\ UNCHANGED <<features, rng, panicked, signer, x25519, blinding>>

(* VerifyingState::absorb(chunk)                                           *)
VAbsorb(chunk) ==
    /\ vst # None
    /\ vresult = None
    /\ vst' = Some(VerifyingState_absorb(vst[1], chunk))
    /\ vchunks' = vchunks + 1
    /\ vmessage' = vmessage \o chunk
    /\ UNCHANGED <<features, rng, panicked, signer, vpk, vsignature, vapi,
                   vresult, x25519, blinding>>

(* VerifyingState::verify()                                                *)
VVerify ==
    /\ vst # None
    /\ vresult = None
    /\ vresult' = Some(VerifyingState_verify(vst[1]))
    /\ UNCHANGED <<features, rng, panicked, signer, vpk, vsignature, vst,
                   vchunks, vmessage, vapi, x25519, blinding>>

(***************************************************************************)
(* Streaming signing, followed by single-shot signing of the bytes         *)
(* absorbed and by streaming verification of the streaming signature.      *)
(***************************************************************************)
MaxStream == 4

MaxChunks == 2

Chunks == SeqsUpTo(MaxStream)

IsPrefix(a, b) == Len(a) <= Len(b) /\ a = SubSeq(b, 1, Len(a))

(* The feature "self-verify" plays no part in the streaming API.           *)
InitStream == Init /\ ~features.self_verify

(* kp.sk.sign_incremental(Noise::new(n)); with the feature "random" the    *)
(* call draws additional noise from the random source.                     *)
SignIncremental(n) ==
    /\ kp # None
    /\ sst = None
    /\ signature = None
    /\ sst' = Some(SecretKey_sign_incremental(
                       kp[1].sk, n, IF features.random THEN Some(rng) ELSE None))
    /\ schunks' = 0
    /\ message' = << >>
    /\ noise' = Some(n)
    /\ call_rng' = <<rng>>
    /\ UNCHANGED <<features, rng, kp, signature, again, panicked, verifier,
                   x25519, blinding>>

(* SigningState::absorb(chunk)                                             *)
SAbsorb(chunk) ==
    /\ sst # None
    /\ signature = None
    /\ schunks < MaxChunks
    /\ Len(message) + Len(chunk) <= MaxStream
    /\ sst' = Some(SigningState_absorb(sst[1], chunk))
    /\ schunks' = schunks + 1
    /\ message' = message \o chunk
    /\ UNCHANGED <<features, rng, kp, noise, signature, again, call_rng,
                   panicked, verifier, x25519, blinding>>

(* SigningState::sign()                                                    *)
SSign ==
    /\ sst # None
    /\ signature = None
    /\ signature' = Some(SigningState_sign(sst[1]))
    /\ UNCHANGED <<features, rng, kp, message, noise, sst, schunks, again,
                   call_rng, panicked, verifier, x25519, blinding>>

(* kp.sk.sign(message, Some(noise)) on the bytes absorbed, with the noise  *)
(* given to sign_incremental.                                              *)
SignSingleShot ==
    /\ sst # None
    /\ SignAgain

(* kp.pk.verify_incremental(&signature), once both signatures are made     *)
VerifyIncrementalOwn ==
    /\ sst # None
    /\ again # None
    /\ VerifyIncremental(kp[1].pk, signature[1])

(* VerifyingState::absorb(chunk) with the next bytes of the signed message *)
VAbsorbOwn ==
    \E chunk \in Chunks :
        /\ vchunks < MaxChunks
        /\ IsPrefix(vmessage \o chunk, message)
        /\ VAbsorb(chunk)

NextStream ==
    \/ \E seed \in 0 .. MaxSeed : FromSeed(seed)
    \/ \E n \in 0 .. MaxNoise : SignIncremental(n)
    \/ \E chunk \in Chunks : SAbsorb(chunk)
    \/ SSign
    \/ SignSingleShot
    \/ VerifyIncrementalOwn
    \/ VAbsorbOwn
    \/ VVerify

SpecStream == InitStream /\ [][NextStream]_vars

(***************************************************************************)
(* Verification of arbitrary inputs: any 32-byte public key, a message,    *)
(* and a signature (r, s) whose s is canonical, or not.                    *)
(***************************************************************************)
MaxR == 1

MaxS == 0

AdvSignatures ==
    {<<r, s>> : r \in 1 .. MaxR,
                s \in (0 .. MaxS) \cup (L .. (L + MaxS)) \cup {TwoW - 1}}

InitAdv ==
    /\ features = [random |-> FALSE, self_verify |-> FALSE]
    /\ rng = 0
    /\ kp = None
    /\ message \in Msgs
    /\ noise = None
    /\ sst = None
    /\ schunks = 0
    /\ signature = None
    /\ again = None
    /\ call_rng = << >>
    /\ panicked = FALSE
    /\ vpk \in Sym
    /\ vsignature \in {Some(sig) : sig \in AdvSignatures}
    /\ vst = None
    /\ vchunks = 0
    /\ vmessage = << >>
    /\ vapi = ""
    /\ vresult = None
    /\ xa = None
    /\ xb = None
    /\ out_a = None
    /\ out_b = None
    /\ xcall = None
    /\ blind = 0
    /\ ctx = << >>
    /\ bkp = None
    /\ bpk = None
    /\ unblinded = None

VerifyGiven == Verify(vpk, message, vsignature[1])

VerifyIncrementalGiven == VerifyIncremental(vpk, vsignature[1])

VAbsorbGiven ==
    /\ vmessage = << >>
    /\ message # << >>
    /\ VAbsorb(message)

VVerifyGiven ==
    /\ vmessage = message
    /\ VVerify

NextAdv ==
    \/ VerifyGiven
    \/ VerifyIncrementalGiven
    \/ VAbsorbGiven
    \/ VVerifyGiven

SpecAdv == InitAdv /\ [][NextAdv]_vars

(***************************************************************************)
(* X25519 key agreement between two key pairs, each generated or mapped    *)
(* from an Ed25519 key pair.                                               *)
(***************************************************************************)
MaxSk == 15

XSecretKeys == 0 .. MaxSk

(* x25519::KeyPair::generate() for side a                                  *)
GenerateA(sk) ==
    /\ features.random
    /\ xa = None
    /\ ~panicked
    /\ LET res == X25519_KeyPair_generate(sk)
       IN  /\ xa' = IF IsOk(res) THEN Some(res.val) ELSE None
           /\ panicked' = ~IsOk(res)
    /\ UNCHANGED <<features, rng, signer, verifier, xb, out_a, out_b, xcall,
                   blinding>>

(* x25519::KeyPair::generate() for side b                                  *)
GenerateB(sk) ==
    /\ features.random
    /\ xb = None
    /\ ~panicked
    /\ LET res == X25519_KeyPair_generate(sk)
       IN  /\ xb' = IF IsOk(res) THEN Some(res.val) ELSE None
           /\ panicked' = ~IsOk(res)
    /\ UNCHANGED <<features, rng, signer, verifier, xa, out_a, out_b, xcall,
                   blinding>>

(* x25519::KeyPair::from_ed25519(&KeyPair::from_seed(seed)).unwrap()       *)
FromEd25519A(seed) ==
    /\ xa = None
    /\ ~panicked
    /\ LET res == X25519_KeyPair_from_ed25519(KeyPair_from_seed(seed).val)
       IN  /\ xa' = IF IsOk(res) THEN Some(res.val) ELSE None
           /\ panicked' = ~IsOk(res)
    /\ UNCHANGED <<features, rng, signer, verifier, xb, out_a, out_b, xcall,
                   blinding>>

FromEd25519B(seed) ==
    /\ xb = None
    /\ ~panicked
    /\ LET res == X25519_KeyPair_from_ed25519(KeyPair_from_seed(seed).val)
       IN  /\ xb' = IF IsOk(res) THEN Some(res.val) ELSE None
           /\ panicked' = ~IsOk(res)
    /\ UNCHANGED <<features, rng, signer, verifier, xa, out_a, out_b, xcall,
                   blinding>>

(* kp_b.pk.dh(&kp_a.sk), computed by side a                                *)
DhA ==
    /\ xa # None
    /\ xb # None
    /\ out_a = None
    /\ out_a' = Some(X25519_dh(xb[1].pk, xa[1].sk))
    /\ UNCHANGED <<features, rng, panicked, signer, verifier, xa, xb, out_b,
                   xcall, blinding>>

(* kp_a.pk.dh(&kp_b.sk), computed by side b                                *)
DhB ==
    /\ xa # None
    /\ xb # None
    /\ out_b = None
    /\ out_b' = Some(X25519_dh(xa[1].pk, xb[1].sk))
    /\ UNCHANGED <<features, rng, panicked, signer, verifier, xa, xb, out_a,
                   xcall, blinding>>

NextX ==
    \/ \E sk \in XSecretKeys : GenerateA(sk)
    \/ \E sk \in XSecretKeys : GenerateB(sk)
    \/ \E seed \in 1 .. MaxSeed : FromEd25519A(seed)
    \/ \E seed \in 1 .. MaxSeed : FromEd25519B(seed)
    \/ DhA
    \/ DhB

SpecX == Init /\ [][NextX]_vars

(***************************************************************************)
(* One call on an arbitrary X25519 public key.                             *)
(***************************************************************************)
(* pk.clear_cofactor()                                                     *)
ClearCofactor ==
    /\ xcall = None
    /\ \E pk \in Sym :
           xcall' = Some([op |-> "clear_cofactor", pk |-> pk, sk |-> 0,
                          res |-> X25519_clear_cofactor(pk)])
    /\ UNCHANGED <<features, rng, panicked, signer, verifier, xa, xb, out_a,
                   out_b, blinding>>

(* pk.dh(&sk)                                                              *)
Dh ==
    /\ xcall = None
    /\ \E pk \in Sym, sk \in XSecretKeys :
           xcall' = Some([op |-> "dh", pk |-> pk, sk |-> sk,
                          res |-> X25519_dh(pk, sk)])
    /\ UNCHANGED <<features, rng, panicked, signer, verifier, xa, xb, out_a,
                   out_b, blinding>>

(* pk.unclamped_mul(&sk)                                                   *)
UnclampedMul ==
    /\ xcall = None
    /\ \E pk \in Sym, sk \in XSecretKeys :
           xcall' = Some([op |-> "unclamped_mul", pk |-> pk, sk |-> sk,
                          res |-> X25519_unclamped_mul(pk, sk)])
    /\ UNCHANGED <<features, rng, panicked, signer, verifier, xa, xb, out_a,
                   out_b, blinding>>

NextXPk ==
    \/ ClearCofactor
    \/ Dh
    \/ UnclampedMul

(* The calls depend on no cargo feature.                                   *)
InitXPk == Init /\ features = [random |-> FALSE, self_verify |-> FALSE]

SpecXPk == InitXPk /\ [][NextXPk]_vars

(***************************************************************************)
(* Key blinding: a key pair is blinded, the blind public key is unblinded, *)
(* the blind secret key signs, and the signature is verified.              *)
(***************************************************************************)
MaxBlind == 31

Blinds == 0 .. MaxBlind

(* The feature "random" plays no part in key blinding.                     *)
InitBlind == Init /\ ~features.random

(* kp.blind(&Blind::new(b), c)                                             *)
KeyPairBlind ==
    /\ kp # None
    /\ bkp = None
    /\ \E b \in Blinds, c \in Msgs :
           /\ blind' = b
           /\ ctx' = c
           /\ bkp' = Some(KeyPair_blind(kp[1], b, c))
    /\ UNCHANGED <<features, rng, panicked, signer, verifier, x25519, bpk,
                   unblinded>>

(* kp.pk.blind(&blind, ctx), with the blind and the context of kp.blind    *)
PublicKeyBlind ==
    /\ bkp # None
    /\ bpk = None
    /\ bpk' = Some(PublicKey_blind(kp[1].pk, blind, ctx))
    /\ UNCHANGED <<features, rng, panicked, signer, verifier, x25519, blind,
                   ctx, bkp, unblinded>>

(* blind_kp.blind_pk.unblind(&blind, ctx)                                  *)
UnblindKeyPair ==
    /\ bkp # None
    /\ unblinded = None
    /\ unblinded' = Some([of  |-> "KeyPair::blind",
                          res |-> BlindPublicKey_unblind(bkp[1].blind_pk,
                                                         blind, ctx)])
    /\ UNCHANGED <<features, rng, panicked, signer, verifier, x25519, blind,
                   ctx, bkp, bpk>>

(* kp.pk.blind(&blind, ctx)?.unblind(&blind, ctx)                          *)
UnblindPublicKey ==
    /\ bpk # None
    /\ IsOk(bpk[1])
    /\ unblinded = None
    /\ unblinded' = Some([of  |-> "PublicKey::blind",
                          res |-> BlindPublicKey_unblind(bpk[1].val,
                                                         blind, ctx)])
    /\ UNCHANGED <<features, rng, panicked, signer, verifier, x25519, blind,
                   ctx, bkp, bpk>>

NextBlind ==
    \/ \E seed \in 0 .. MaxSeed : FromSeed(seed)
    \/ KeyPairBlind
    \/ PublicKeyBlind
    \/ UnblindKeyPair
    \/ UnblindPublicKey

SpecBlind == InitBlind /\ [][NextBlind]_vars

(* blind_kp.blind_sk.sign(m, n)                                            *)
BlindSign ==
    /\ bkp # None
    /\ signature = None
    /\ ~panicked
    /\ \E m \in Msgs, n \in NoiseOpts :
           LET res == BlindSecretKey_sign(bkp[1].blind_sk, m, n,
                                          features.self_verify)
           IN  /\ signature' = IF IsOk(res) THEN Some(res.val) ELSE None
               /\ panicked' = ~IsOk(res)
               /\ message' = m
               /\ noise' = n
    /\ UNCHANGED <<features, rng, kp, sst, schunks, again, call_rng, verifier,
                   x25519, blinding>>

(* blind_kp.blind_pk.verify(message, &signature)                           *)
VerifyBlind ==
    /\ bkp # None
    /\ signature # None
    /\ Verify(bkp[1].blind_pk, message, signature[1])

(* kp.pk.verify(message, &signature), under the original public key        *)
VerifyOriginal ==
    /\ bkp # None
    /\ signature # None
    /\ Verify(kp[1].pk, message, signature[1])

NextBlindSign ==
    \/ \E seed \in 0 .. MaxSeed : FromSeed(seed)
    \/ KeyPairBlind
    \/ BlindSign
    \/ VerifyBlind
    \/ VerifyOriginal

SpecBlindSign == Init /\ [][NextBlindSign]_vars

(***************************************************************************)
(* One call of a from_slice constructor on a slice of any length.          *)
(***************************************************************************)
MaxSlice == 2

Slices ==
    {<<v>> : v \in Sym}
        \cup UNION {[1 .. k -> Bytes] : k \in (0 .. MaxSlice) \ {1}}

(* x25519::PublicKey::from_slice(slice)                                    *)
XPublicKeyFromSlice ==
    /\ xcall = None
    /\ \E slice \in Slices :
           xcall' = Some([op |-> "x25519::PublicKey::from_slice",
                          pk |-> slice, sk |-> 0,
                          res |-> X25519_PublicKey_from_any_slice(slice)])
    /\ UNCHANGED <<features, rng, panicked, signer, verifier, xa, xb, out_a,
                   out_b, blinding>>

Call(op, arg, res) == Some([op |-> op, pk |-> arg, sk |-> 0, res |-> res])

SliceFrame ==
    UNCHANGED <<features, rng, panicked, signer, verifier, xa, xb, out_a, out_b,
                blinding>>

(* Seed::from_slice(slice)                                                 *)
SeedFromSlice ==
    /\ xcall = None
    /\ \E slice \in Slices :
           xcall' = Call("Seed::from_slice", slice, Seed_from_slice(slice))
    /\ SliceFrame

(* Noise::from_slice(slice)                                                *)
NoiseFromSlice ==
    /\ xcall = None
    /\ \E slice \in Slices :
           xcall' = Call("Noise::from_slice", slice, Noise_from_slice(slice))
    /\ SliceFrame

(* Blind::from_slice(slice)                                                *)
BlindFromSlice ==
    /\ xcall = None
    /\ \E slice \in Slices :
           xcall' = Call("Blind::from_slice", slice, Blind_from_slice(slice))
    /\ SliceFrame

(* PublicKey::new(pk)                                                      *)
PublicKeyNew ==
    /\ xcall = None
    /\ \E pk \in Sym :
           xcall' = Call("PublicKey::new", <<pk>>, Ok(PublicKey_new(pk)))
    /\ SliceFrame

(* PublicKey::from_slice(slice)                                            *)
PublicKeyFromSlice ==
    /\ xcall = None
    /\ \E slice \in Slices :
           xcall' = Call("PublicKey::from_slice", slice,
                         PublicKey_from_slice(slice))
    /\ SliceFrame

(* PublicKey::from_der(der): a right or a wrong header, then a slice.      *)
PublicKeyFromDer ==
    /\ xcall = None
    /\ \E header \in {DER_HEADER_PK, <<48, 46>>, <<48>>}, slice \in Slices :
           xcall' = Call("PublicKey::from_der", header \o slice,
                         PublicKey_from_der(header \o slice))
    /\ SliceFrame

(* SecretKey::new(sk)                                                      *)
SecretKeyNew ==
    /\ xcall = None
    /\ \E seed \in 0 .. MaxSeed, half \in Sym :
           xcall' = Call("SecretKey::new", <<seed, half>>,
                         Ok(SecretKey_new(<<seed, half>>)))
    /\ SliceFrame

(* SecretKey::from_slice(slice)                                            *)
SecretKeyFromSlice ==
    /\ xcall = None
    /\ \E slice \in Slices :
           xcall' = Call("SecretKey::from_slice", slice,
                         SecretKey_from_slice(slice))
    /\ SliceFrame

(* KeyPair::from_slice(slice), the result being the secret key of the pair *)
KeyPairFromSlice ==
    /\ xcall = None
    /\ \E slice \in Slices :
           xcall' = Call("KeyPair::from_slice", slice,
                         KeyPair_from_slice(slice))
    /\ SliceFrame

(* KeyPair::from_seed(seed)                                                *)
KeyPairFromSeed ==
    /\ xcall = None
    /\ \E seed \in Sym :
           xcall' = Call("KeyPair::from_seed", <<seed>>,
                         KeyPair_from_seed(seed))
    /\ SliceFrame

(* A key pair from a seed, then one write into its secret key.             *)
SecretKeyDerefMut ==
    /\ xcall = None
    /\ \E seed \in 1 .. MaxSeed, i \in 1 .. 2, v \in 0 .. MaxSeed :
           LET k == KeyPair_from_seed(seed).val
           IN  xcall' = Call("SecretKey::deref_mut", <<seed, i, v>>,
                             Ok(SecretKey_deref_mut(k.sk, i, v)))
    /\ SliceFrame

(* Signature::from_slice(slice)                                            *)
SignatureFromSlice ==
    /\ xcall = None
    /\ \E slice \in Slices :
           xcall' = Call("Signature::from_slice", slice,
                         Signature_from_slice(slice))
    /\ SliceFrame

NextSlice ==
    \/ XPublicKeyFromSlice
    \/ SeedFromSlice
    \/ NoiseFromSlice
    \/ BlindFromSlice
    \/ PublicKeyNew
    \/ PublicKeyFromSlice
    \/ PublicKeyFromDer
    \/ SecretKeyNew
    \/ SecretKeyFromSlice
    \/ SecretKeyDerefMut
    \/ KeyPairFromSlice
    \/ KeyPairFromSeed
    \/ SignatureFromSlice

SpecSlice == InitXPk /\ [][NextSlice]_vars

(***************************************************************************)
(* One call of validate_public_key or validate.  A secret key built by     *)
(* SecretKey::new holds any bytes, and the fields of a KeyPair are public. *)
(***************************************************************************)
EdSecretKeys == {<<seed, half>> : seed \in 0 .. MaxSeed, half \in 0 .. MaxSeed}

EdPublicKeys ==
    (0 .. MaxSeed) \cup {KeyPair_from_seed(seed).val.pk : seed \in 1 .. MaxSeed}

XPublicKeys ==
    (0 .. MaxSeed)
        \cup {X25519_recover_public_key(sk).val : 
                 sk \in {k \in XSecretKeys : IsOk(X25519_recover_public_key(k))}}

(* ed25519::SecretKey::validate_public_key(&pk)                            *)
EdValidatePublicKey ==
    /\ xcall = None
    /\ \E sk \in EdSecretKeys, pk \in EdPublicKeys :
           xcall' = Some([op |-> "ed25519::SecretKey::validate_public_key",
                          pk |-> pk, sk |-> sk,
                          res |-> SecretKey_validate_public_key(sk, pk)])
    /\ UNCHANGED <<features, rng, panicked, signer, verifier, xa, xb, out_a,
                   out_b, blinding>>

(* ed25519::KeyPair::validate()                                            *)
EdKeyPairValidate ==
    /\ xcall = None
    /\ \E sk \in EdSecretKeys, pk \in EdPublicKeys :
           xcall' = Some([op |-> "ed25519::KeyPair::validate",
                          pk |-> pk, sk |-> sk,
                          res |-> KeyPair_validate([pk |-> pk, sk |-> sk])])
    /\ UNCHANGED <<features, rng, panicked, signer, verifier, xa, xb, out_a,
                   out_b, blinding>>

(* x25519::SecretKey::validate_public_key(&pk)                             *)
XValidatePublicKey ==
    /\ xcall = None
    /\ \E sk \in XSecretKeys, pk \in XPublicKeys :
           xcall' = Some([op |-> "x25519::SecretKey::validate_public_key",
                          pk |-> pk, sk |-> sk,
                          res |-> X25519_validate_public_key(sk, pk)])
    /\ UNCHANGED <<features, rng, panicked, signer, verifier, xa, xb, out_a,
                   out_b, blinding>>

(* x25519::KeyPair::validate()                                             *)
XKeyPairValidate ==
    /\ xcall = None
    /\ \E sk \in XSecretKeys, pk \in XPublicKeys :
           xcall' = Some([op |-> "x25519::KeyPair::validate",
                          pk |-> pk, sk |-> sk,
                          res |-> X25519_KeyPair_validate([pk |-> pk,
                                                           sk |-> sk])])
    /\ UNCHANGED <<features, rng, panicked, signer, verifier, xa, xb, out_a,
                   out_b, blinding>>

NextValidate ==
    \/ EdValidatePublicKey
    \/ EdKeyPairValidate
    \/ XValidatePublicKey
    \/ XKeyPairValidate

SpecValidate == InitXPk /\ [][NextValidate]_vars

(***************************************************************************)
(* One secret-bearing value is built and dropped; xcall keeps the value    *)
(* and the memory it leaves behind.                                        *)
(***************************************************************************)
DropSeed ==
    /\ xcall = None
    /\ \E seed \in Sym :
           xcall' = Call("drop Seed", <<seed>>, Ok(Seed_drop(<<seed>>)))
    /\ SliceFrame

DropSecretKey ==
    /\ xcall = None
    /\ \E seed \in 1 .. MaxSeed :
           LET sk == KeyPair_from_seed(seed).val.sk
           IN  xcall' = Call("drop SecretKey", sk, Ok(SecretKey_drop(sk)))
    /\ SliceFrame

DropBlind ==
    /\ xcall = None
    /\ \E b \in Blinds :
           xcall' = Call("drop Blind", <<b>>, Ok(Blind_drop(<<b>>)))
    /\ SliceFrame

DropBlindSecretKey ==
    /\ xcall = None
    /\ \E seed \in 1 .. MaxSeed, b \in 0 .. MaxSeed, c \in Msgs :
           LET bsk == KeyPair_blind(KeyPair_from_seed(seed).val, b, c).blind_sk
           IN  xcall' = Call("drop BlindSecretKey", bsk,
                             Ok(BlindSecretKey_drop(bsk)))
    /\ SliceFrame

DropSigningState ==
    /\ xcall = None
    /\ \E seed \in 1 .. MaxSeed, n \in 0 .. MaxNoise :
           LET st == SecretKey_sign_incremental(KeyPair_from_seed(seed).val.sk,
                                                n, None)
           IN  xcall' = Call("drop SigningState", st,
                             Ok(SigningState_drop(st)))
    /\ SliceFrame

DropXSecretKey ==
    /\ xcall = None
    /\ \E sk \in XSecretKeys :
           xcall' = Call("drop x25519::SecretKey", <<sk>>,
                         Ok(X25519_SecretKey_drop(<<sk>>)))
    /\ SliceFrame

DropDHOutput ==
    /\ xcall = None
    /\ \E sk \in XSecretKeys :
           LET out == X25519_dh(X25519_base_point, sk)
           IN  /\ IsOk(out)
               /\ xcall' = Call("drop DHOutput", <<out.val>>,
                                Ok(DHOutput_drop(<<out.val>>)))
    /\ SliceFrame

NextDrop ==
    \/ DropSeed
    \/ DropSecretKey
    \/ DropBlind
    \/ DropBlindSecretKey
    \/ DropSigningState
    \/ DropXSecretKey
    \/ DropDHOutput

SpecDrop == InitXPk /\ [][NextDrop]_vars

(***************************************************************************)
(* Signing with a key whose public half need not match its seed: the key   *)
(* pair comes from a seed or from 64 given bytes, signs itself or is       *)
(* blinded and signs blind, and the signature is verified under the public *)
(* key the signing key carries.                                            *)
(***************************************************************************)
InitSelfVerify == Init /\ ~features.random

(* KeyPair::from_slice(seed || half)                                       *)
FromSlice ==
    /\ kp = None
    /\ ~panicked
    /\ \E seed \in 0 .. MaxSeed, half \in {0, KeyPair_from_seed(1).val.pk} :
           kp' = Some(KeyPair_from_slice(<<seed, half>>).val)
    /\ UNCHANGED <<features, rng, panicked, message, noise, sst, schunks,
                   signature, again, call_rng, verifier, x25519, blinding>>

(* kp.sk.sign(m, n) by a key pair that was not blinded                     *)
SignUnblinded ==
    /\ bkp = None
    /\ ~panicked
    /\ \E m \in Msgs, n \in NoiseOpts : Sign(m, n)

(* kp.blind(&blind, ctx) by a key pair that has not signed                 *)
BlindUnsigned ==
    /\ signature = None
    /\ ~panicked
    /\ KeyPairBlind

(* sk.public_key().verify(message, &signature)                             *)
VerifyCarried ==
    /\ bkp = None
    /\ signature # None
    /\ Verify(SecretKey_public_key(kp[1].sk), message, signature[1])

NextSelfVerify ==
    \/ \E seed \in 0 .. MaxSeed : FromSeed(seed)
    \/ FromSlice
    \/ SignUnblinded
    \/ BlindUnsigned
    \/ BlindSign
    \/ VerifyCarried
    \/ VerifyBlind

SpecSelfVerify == InitSelfVerify /\ [][NextSelfVerify]_vars

(***************************************************************************)
(* Verification of inputs that fail each of the checks in turn: weak,      *)
(* undecodable and decodable public keys, decodable and undecodable R,     *)
(* canonical and non-canonical s.                                          *)
(***************************************************************************)
MaxOrderKey == 7

MaxOrderR == 5

OrderSignatures == {<<r, s>> : r \in 1 .. MaxOrderR, s \in {0, L}}

InitOrder ==
    /\ features = [random |-> FALSE, self_verify |-> FALSE]
    /\ rng = 0
    /\ kp = None
    /\ message \in Msgs
    /\ noise = None
    /\ sst = None
    /\ schunks = 0
    /\ signature = None
    /\ again = None
    /\ call_rng = << >>
    /\ panicked = FALSE
    /\ vpk \in 0 .. MaxOrderKey
    /\ vsignature \in {Some(sig) : sig \in OrderSignatures}
    /\ vst = None
    /\ vchunks = 0
    /\ vmessage = << >>
    /\ vapi = ""
    /\ vresult = None
    /\ xa = None
    /\ xb = None
    /\ out_a = None
    /\ out_b = None
    /\ xcall = None
    /\ blind = 0
    /\ ctx = << >>
    /\ bkp = None
    /\ bpk = None
    /\ unblinded = None

SpecOrder == InitOrder /\ [][NextAdv]_vars

(***************************************************************************)
(* One call of a function of the group, scalar or clamping code on an      *)
(* input of its whole domain.  A point is given by its affine coordinates  *)
(* on the curve and a projective denominator z.                            *)
(***************************************************************************)
MaxZ == 2

CurvePoints ==
    {a \in (0 .. (P - 1)) \X (0 .. (P - 1)) :
        LET xx == (a[1] * a[1]) % P
            yy == (a[2] * a[2]) % P
        IN  ((yy + P) - xx) % P = (1 + ((FE_D * ((xx * yy) % P)) % P)) % P}

Projective(a, z) ==
    [x |-> (a[1] * z) % P, y |-> (a[2] * z) % P, z |-> z,
     t |-> (((a[1] * a[2]) % P) * z) % P]

(* GeP3::to_bytes, then both decompressions of the bytes                   *)
ToBytes ==
    /\ xcall = None
    /\ \E a \in CurvePoints, z \in 1 .. MaxZ :
           LET bytes == GeP3_to_bytes(Projective(a, z))
           IN  xcall' = Call("GeP3::to_bytes", <<a[1], a[2], z>>,
                             [bytes |-> bytes,
                              dec   |-> GeP3_from_bytes_vartime(bytes),
                              neg   |-> GeP3_from_bytes_negate_vartime(bytes)])
    /\ SliceFrame

MaxWideLo == 140

MaxWideHi == 3

WideInputs ==
    {<<lo, hi>> : lo \in (0 .. MaxWideLo) \cup {TwoW - 1},
                  hi \in (0 .. MaxWideHi) \cup {TwoW - 1}}

(* sc_reduce on 64 bytes, then sc_reduce32 on the 32 bytes it left         *)
ScReduce ==
    /\ xcall = None
    /\ \E s \in WideInputs :
           LET out == sc_reduce(s)
           IN  xcall' = Call("sc_reduce", s,
                             [out |-> out, again |-> sc_reduce32(out[1])])
    /\ SliceFrame

(* KeyPair::clamp(scalar), applied once and applied again                  *)
Clamp ==
    /\ xcall = None
    /\ \E scalar \in Sym :
           xcall' = Call("KeyPair::clamp", scalar,
                         [once  |-> KeyPair_clamp(scalar),
                          twice |-> KeyPair_clamp(KeyPair_clamp(scalar))])
    /\ SliceFrame

(* x25519 SecretKey::clamped(&self): the clone is clamped and returned     *)
XClamped ==
    /\ xcall = None
    /\ \E sk \in Sym :
           xcall' = Call("SecretKey::clamped", sk,
                         [self  |-> sk,
                          once  |-> X25519_clamped(sk),
                          twice |-> X25519_clamped(X25519_clamped(sk))])
    /\ SliceFrame

NextPure ==
    \/ ToBytes
    \/ ScReduce
    \/ Clamp
    \/ XClamped

SpecPure == InitXPk /\ [][NextPure]_vars

(***************************************************************************)
(* A sha512::Hash that absorbs a sequence of chunks: empty, shorter than   *)
(* a block, one block, longer than a block.  xcall holds the bytes         *)
(* absorbed so far and the hasher.                                         *)
(***************************************************************************)
MaxChunk == 5

MaxAbsorbed == 6

(* Hash::new()                                                             *)
HashNew ==
    /\ xcall = None
    /\ xcall' = Call("Hash", << >>, Hash_new)
    /\ SliceFrame

(* Hash::update(chunk)                                                     *)
HashUpdate ==
    /\ xcall # None
    /\ xcall[1].op = "Hash"
    /\ \E chunk \in SeqsUpTo(MaxChunk) :
           /\ Len(xcall[1].pk) + Len(chunk) <= MaxAbsorbed
           /\ xcall' = Call("Hash", xcall[1].pk \o chunk,
                            Hash_update(xcall[1].res, chunk))
    /\ SliceFrame

NextHash ==
    \/ HashNew
    \/ HashUpdate

SpecHash == InitXPk /\ [][NextHash]_vars

(***************************************************************************)
(* Streaming states that are used again after sign() or verify(): the      *)
(* call is repeated, or further chunks are absorbed and the call is made   *)
(* on the longer message.  again holds the result of the call of sign()    *)
(* before the last one when nothing was absorbed in between; xcall holds   *)
(* the last result verify() gave before the latest one, with the bytes     *)
(* absorbed at that time.                                                  *)
(***************************************************************************)
MaxResume == 2

MaxResumeChunks == 2

(* SigningState::absorb(chunk), also after sign()                          *)
SAbsorbMore ==
    /\ sst # None
    /\ vapi = ""
    /\ schunks < MaxResumeChunks
    /\ \E chunk \in SeqsUpTo(MaxResume) :
           /\ Len(message) + Len(chunk) <= MaxResume
           /\ sst' = Some(SigningState_absorb(sst[1], chunk))
           /\ message' = message \o chunk
    /\ schunks' = schunks + 1
    /\ signature' = None
    /\ again' = None
    /\ UNCHANGED <<features, rng, kp, noise, call_rng, panicked, verifier,
                   x25519, blinding>>

(* SigningState::sign(&self), any number of times                          *)
SSignMore ==
    /\ sst # None
    /\ vapi = ""
    /\ signature' = Some(SigningState_sign(sst[1]))
    /\ again' = signature
    /\ UNCHANGED <<features, rng, kp, message, noise, sst, schunks, call_rng,
                   panicked, verifier, x25519, blinding>>

(* kp.pk.verify_incremental(&signature) for the latest signature           *)
VerifyIncrementalSigned ==
    /\ sst # None
    /\ signature # None
    /\ VerifyIncremental(kp[1].pk, signature[1])

(* VerifyingState::absorb(chunk), also after verify()                      *)
VAbsorbMore ==
    /\ vst # None
    /\ vchunks < MaxResumeChunks
    /\ \E chunk \in SeqsUpTo(MaxResume) :
           /\ IsPrefix(vmessage \o chunk, message)
           /\ vst' = Some(VerifyingState_absorb(vst[1], chunk))
           /\ vmessage' = vmessage \o chunk
    /\ vchunks' = vchunks + 1
    /\ vresult' = None
    /\ xcall' = IF vresult = None THEN xcall
                ELSE Call("VerifyingState::verify", vmessage, vresult[1])
    /\ UNCHANGED <<features, rng, panicked, signer, vpk, vsignature, vapi, xa,
                   xb, out_a, out_b, blinding>>

(* VerifyingState::verify(&self), any number of times                      *)
VVerifyMore ==
    /\ vst # None
    /\ vresult' = Some(VerifyingState_verify(vst[1]))
    /\ xcall' = IF vresult = None THEN xcall
                ELSE Call("VerifyingState::verify", vmessage, vresult[1])
    /\ UNCHANGED <<features, rng, panicked, signer, vpk, vsignature, vst,
                   vchunks, vmessage, vapi, xa, xb, out_a, out_b, blinding>>

NextResume ==
    \/ \E seed \in 0 .. MaxSeed : FromSeed(seed)
    \/ \E n \in 0 .. MaxNoise : SignIncremental(n)
    \/ SAbsorbMore
    \/ SSignMore
    \/ VerifyIncrementalSigned
    \/ VAbsorbMore
    \/ VVerifyMore

SpecResume == InitStream /\ [][NextResume]_vars

(***************************************************************************)
(* The challenge scalar of a signature (r, s) under pk for the message m:  *)
(* the hash of r, pk and m, reduced modulo L, as VerifyingState::new and   *)
(* VerifyingState::verify compute it.                                      *)
(***************************************************************************)
Challenge(r, pk, m) ==
    Then(Hash_update(Hash_update(Hash_update(Hash_new, <<r>>), <<pk>>), m),
         LAMBDA hasher : sc_reduce(Hash_finalize(hasher))[1])

(***************************************************************************)
(* C1.  For every non-zero seed, every message and every noise (None or    *)
(* a value): the signature sign returns verifies under the public key of   *)
(* the key pair for the message that was signed, and sign does not panic.  *)
(***************************************************************************)
C1_SignThenVerify ==
    /\ (kp # None => ~panicked)
    /\ (vresult # None /\ vmessage = message) => vresult[1] = Ok(0)

C1_Witness ==
    /\ vresult # None
    /\ vmessage = message
    /\ message # << >>
    /\ noise # None
    /\ features.self_verify
    /\ vresult[1] = Ok(0)

C3_NoncanonicalSInvalidSignature ==
    (vapi # "" /\ vsignature[1][2] >= L)
        => vresult = Some(Err("InvalidSignature"))

(***************************************************************************)
(* The public keys that encode a small-order point: the encoding decodes   *)
(* to a point that 8 times itself is the neutral element (0 : z : z).      *)
(***************************************************************************)
IsNeutral(p) == Fe_is_zero(p.x) /\ Fe_to_bytes(p.y) = Fe_to_bytes(p.z)

SmallOrderKeys ==
    {pk \in Sym :
        LET a == GeP3_from_bytes_vartime(pk)
        IN  a # None /\ IsNeutral(ge_scalarmult(8, a[1]))}

(***************************************************************************)
(* C4.  For every public key that encodes a small-order point (and a       *)
(* signature with a canonical S), verification fails with WeakPublicKey,   *)
(* and it fails when the verifying state is created: no VerifyingState     *)
(* exists, so no byte of the message is hashed.                            *)
(***************************************************************************)
C4_SmallOrderKeyRejected ==
    (vapi # "" /\ vsignature[1][2] < L /\ vpk \in SmallOrderKeys)
        => (vst = None /\ vresult = Some(Err("WeakPublicKey")))

(***************************************************************************)
(* The y coordinates for which some x satisfies the curve equation         *)
(* -x^2 + y^2 = 1 + d x^2 y^2.                                             *)
(***************************************************************************)
CurveYs ==
    {y \in 0 .. (P - 1) :
        \E x \in 0 .. (P - 1) :
            LET xx == (x * x) % P
                yy == (y * y) % P
            IN  ((yy + P) - xx) % P = (1 + ((FE_D * ((xx * yy) % P)) % P)) % P}

FailsDecompression(pk) == (Fe_from_bytes(pk) % P) \notin CurveYs

(***************************************************************************)
(* C5 as stated.  For every 32-byte public key whose decompression fails,  *)
(* verify fails with InvalidPublicKey.                                     *)
(***************************************************************************)
C5_UndecodableKeyInvalid ==
    (vapi # "" /\ FailsDecompression(vpk))
        => vresult = Some(Err("InvalidPublicKey"))

(***************************************************************************)
(* C5, amended.  For every 32-byte public key whose decompression fails    *)
(* and every signature whose S half is < L, verify and verify_incremental  *)
(* fail with InvalidPublicKey.                                             *)
(***************************************************************************)
C5_UndecodableKeyCanonicalS ==
    (vapi # "" /\ FailsDecompression(vpk) /\ vsignature[1][2] < L)
        => vresult = Some(Err("InvalidPublicKey"))

C5_Witness ==
    /\ vapi = "verify_incremental"
    /\ FailsDecompression(vpk)
    /\ vsignature[1][2] < L
    /\ message # << >>
    /\ vresult = Some(Err("InvalidPublicKey"))

C7_StreamingSignEqualsSingleShot ==
    (~features.random /\ sst # None /\ signature # None /\ again # None)
        => signature = again

(* C7 as the code has it: the streaming nonce is SHA-512(noise || seed),   *)
(* the single-shot nonce is SHA-512(noise || az || message) reduced, and   *)
(* the two signatures are the same bytes exactly when the two nonces are   *)
(* congruent modulo L.                                                     *)
C7_EqualExactlyWhenNoncesCongruent ==
    (~features.random /\ sst # None /\ signature # None /\ again # None)
        => (signature = again
               <=> (sst[1].nonce[1] % L)
                       = SecretKey_sign_nonce(sst[1].az, message, noise)[1])

C7_Witness ==
    /\ ~features.random
    /\ sst # None
    /\ schunks = 2
    /\ Len(message) = MaxStream
    /\ signature # None
    /\ again # None
    /\ signature # again

(***************************************************************************)
(* C8.  Streaming signing and streaming verification depend only on the    *)
(* concatenation of the chunks absorbed, not on how the message is split:  *)
(* the signature made from the chunks is the one the same signing state    *)
(* makes from the whole message in one chunk, it verifies through          *)
(* verify_incremental fed any chunks with the same concatenation, and      *)
(* streaming verification returns what PublicKey::verify returns on the    *)
(* concatenation.                                                          *)
(***************************************************************************)
C8_StreamingDependsOnConcatenation ==
    /\ (sst # None /\ signature # None)
           => signature[1]
                  = SigningState_sign(
                        SigningState_absorb(
                            SigningState_new(sst[1].nonce, sst[1].az,
                                             kp[1].pk),
                            message))
    /\ (sst # None /\ vapi = "verify_incremental" /\ vresult # None)
           => /\ vresult[1] = PublicKey_verify(vpk, vmessage, vsignature[1])
              /\ vmessage = message => vresult[1] = Ok(0)

C8_Witness ==
    /\ sst # None
    /\ schunks = 2
    /\ vchunks = 1
    /\ Len(message) = MaxStream
    /\ vmessage = message
    /\ vsignature = signature
    /\ vresult = Some(Ok(0))

(***************************************************************************)
(* C9.  X25519 key agreement is symmetric: for two key pairs whose public  *)
(* keys are the ones recovered from their secret keys, generated or mapped *)
(* from Ed25519 key pairs, pk_b.dh(&sk_a) and pk_a.dh(&sk_b) both succeed  *)
(* and return the same bytes.                                              *)
(***************************************************************************)
C9_DhSymmetric ==
    (/\ xa # None /\ xb # None /\ out_a # None /\ out_b # None
     /\ X25519_recover_public_key(xa[1].sk) = Ok(xa[1].pk)
     /\ X25519_recover_public_key(xb[1].sk) = Ok(xb[1].pk))
        => /\ IsOk(out_a[1])
           /\ IsOk(out_b[1])
           /\ out_a = out_b

C9_Witness ==
    /\ xa # None /\ xb # None /\ out_a # None /\ out_b # None
    /\ xa[1].sk \in XSecretKeys
    /\ xb[1].sk \notin XSecretKeys
    /\ X25519_clamped(xa[1].sk) # X25519_clamped(xb[1].sk)
    /\ X25519_recover_public_key(xa[1].sk) = Ok(xa[1].pk)
    /\ X25519_recover_public_key(xb[1].sk) = Ok(xb[1].pk)
    /\ IsOk(out_a[1])
    /\ out_a = out_b

(***************************************************************************)
(* The u-coordinates of the points of order dividing 8, on the curve       *)
(* v^2 = u^3 + A u^2 + u and on its twist: three doublings, by the         *)
(* doubling formula in projective coordinates, give the point at infinity. *)
(***************************************************************************)
MontgomeryA == (4 * A24) - 2

XDouble(p) ==
    LET xx == (p.x * p.x) % P
        zz == (p.z * p.z) % P
        xz == (p.x * p.z) % P
        d  == (xx + (2 * P) - zz) % P
    IN  [x |-> (d * d) % P,
         z |-> (((4 * xz) % P) * ((xx + ((MontgomeryA * xz) % P) + zz) % P)) % P]

SmallOrderU(pk) ==
    XDouble(XDouble(XDouble([x |-> Fe_from_bytes(pk) % P, z |-> 1]))).z = 0

(***************************************************************************)
(* C10.  For every X25519 public key whose u-coordinate belongs to a point *)
(* of order dividing 8, clear_cofactor, dh and unclamped_mul return        *)
(* Err(WeakPublicKey); none of the three ever returns an all-zero output.  *)
(***************************************************************************)
C10_SmallOrderWeak ==
    xcall # None
        => /\ SmallOrderU(xcall[1].pk)
                  => xcall[1].res = Err("WeakPublicKey")
           /\ IsOk(xcall[1].res) => xcall[1].res.val # 0

C10_Witness ==
    /\ xcall # None
    /\ xcall[1].op = "dh"
    /\ SmallOrderU(xcall[1].pk)
    /\ (Fe_from_bytes(xcall[1].pk) % P) \notin {0, 1, P - 1}
    /\ xcall[1].res = Err("WeakPublicKey")

(***************************************************************************)
(* C11.  x25519::PublicKey::from_slice rejects every 32-byte string whose  *)
(* little-endian value, top bit included, is >= p with InvalidPublicKey,   *)
(* and accepts every 32-byte string whose value is < p.                    *)
(***************************************************************************)
C11_NoncanonicalRejected ==
    (/\ xcall # None
     /\ xcall[1].op = "x25519::PublicKey::from_slice"
     /\ Len(xcall[1].pk) = 1)
        => IF xcall[1].pk[1] >= P
           THEN xcall[1].res = Err("InvalidPublicKey")
           ELSE xcall[1].res = Ok(xcall[1].pk[1])

EdPublicKeyOf(seed) ==
    GeP3_to_bytes(ge_scalarmult_base(
        KeyPair_split(Hash_hash(<<seed>>), FALSE, TRUE)[1]))

XPublicKeyOf(sk) ==
    LET out == X25519_ladder(X25519_base_point, X25519_clamped(sk), FieldBits)
    IN  IF IsOk(out) THEN out.val ELSE Fe_to_bytes(FE_ZERO)

(***************************************************************************)
(* C14.  validate_public_key(pk) and KeyPair::validate, for Ed25519 and    *)
(* for X25519, return Ok exactly when pk equals the public key recomputed  *)
(* from the secret key, and fail with InvalidPublicKey otherwise.          *)
(***************************************************************************)
C14_ValidateIffRecomputed ==
    /\ (/\ xcall # None
        /\ xcall[1].op \in {"ed25519::SecretKey::validate_public_key",
                            "ed25519::KeyPair::validate"})
           => xcall[1].res = IF xcall[1].pk = EdPublicKeyOf(xcall[1].sk[1])
                             THEN Ok(0) ELSE Err("InvalidPublicKey")
    /\ (/\ xcall # None
        /\ xcall[1].op \in {"x25519::SecretKey::validate_public_key",
                            "x25519::KeyPair::validate"})
           => xcall[1].res = IF xcall[1].pk = XPublicKeyOf(xcall[1].sk)
                             THEN Ok(0) ELSE Err("InvalidPublicKey")

(***************************************************************************)
(* C15.  Every PublicKey built by PublicKey::new, from_slice or from_der   *)
(* decodes to a curve point and is neither the identity nor all-zero.      *)
(***************************************************************************)
C15_ConstructedKeyValid ==
    (/\ xcall # None
     /\ xcall[1].op \in {"PublicKey::new", "PublicKey::from_slice",
                         "PublicKey::from_der"}
     /\ IsOk(xcall[1].res))
        => /\ GeP3_from_bytes_vartime(xcall[1].res.val) # None
           /\ xcall[1].res.val # GeP3_to_bytes(GeP3_zero)
           /\ xcall[1].res.val # 0

(***************************************************************************)
(* C15, amended.  The constructors check the framing only: new keeps the   *)
(* bytes given, from_slice fails with InvalidPublicKey on a wrong length   *)
(* and keeps the bytes otherwise, from_der fails with ParseError on a      *)
(* wrong length or header and keeps the key bytes otherwise.  No byte      *)
(* string of the right length is rejected.                                 *)
(***************************************************************************)
C15_ConstructorsCheckFramingOnly ==
    xcall # None
        => LET arg == xcall[1].pk
               res == xcall[1].res
           IN  /\ xcall[1].op = "PublicKey::new" => res = Ok(arg[1])
               /\ xcall[1].op = "PublicKey::from_slice"
                      => res = IF Len(arg) = 1 THEN Ok(arg[1])
                               ELSE Err("InvalidPublicKey")
               /\ xcall[1].op = "PublicKey::from_der"
                      => res = IF /\ Len(arg) = 3
                                  /\ arg[1] = 48
                                  /\ arg[2] = 42
                               THEN Ok(arg[3])
                               ELSE Err("ParseError")

C15_Witness ==
    /\ xcall # None
    /\ xcall[1].op = "PublicKey::from_slice"
    /\ IsOk(xcall[1].res)
    /\ GeP3_from_bytes_vartime(xcall[1].res.val) = None

(***************************************************************************)
(* C16.  In every SecretKey obtained from KeyPair::from_seed,              *)
(* SecretKey::new, SecretKey::from_slice, KeyPair::from_slice or a write   *)
(* through DerefMut, the second half is the public key of the seed in the  *)
(* first half.                                                             *)
(***************************************************************************)
SecretKeyOps ==
    {"SecretKey::new", "SecretKey::from_slice", "SecretKey::deref_mut"}

KeyPairOps == {"KeyPair::from_seed", "KeyPair::from_slice"}

SecretKeyMade ==
    IF xcall[1].op \in KeyPairOps THEN xcall[1].res.val.sk
    ELSE xcall[1].res.val

C16_SecondHalfIsPublicKey ==
    (/\ xcall # None
     /\ xcall[1].op \in SecretKeyOps \cup KeyPairOps
     /\ IsOk(xcall[1].res))
        => SecretKeyMade[2] = EdPublicKeyOf(SecretKeyMade[1])

(***************************************************************************)
(* C16, amended.  The second half is the public key of the first half in   *)
(* every secret key KeyPair::from_seed returns.  SecretKey::new,           *)
(* SecretKey::from_slice and KeyPair::from_slice keep the 64 bytes given   *)
(* (from_slice fails with InvalidSecretKey on a wrong length), and         *)
(* KeyPair::from_slice takes its public key from the second half.  A      *)
(* write through DerefMut into a key from from_seed is not checked: the    *)
(* key holds the half written next to the half it had.                     *)
(***************************************************************************)
C16_SecondHalfIsPublicKeyFromSeed ==
    xcall # None
        => LET arg == xcall[1].pk
               res == xcall[1].res
           IN  /\ (xcall[1].op = "KeyPair::from_seed" /\ IsOk(res))
                      => res.val.sk[2] = EdPublicKeyOf(res.val.sk[1])
               /\ xcall[1].op = "SecretKey::new" => res = Ok(arg)
               /\ xcall[1].op = "SecretKey::from_slice"
                      => res = IF Len(arg) = 2 THEN Ok(arg)
                               ELSE Err("InvalidSecretKey")
               /\ xcall[1].op = "KeyPair::from_slice"
                      => res = IF Len(arg) = 2
                               THEN Ok([pk |-> arg[2], sk |-> arg])
                               ELSE Err("InvalidSecretKey")
               /\ xcall[1].op = "SecretKey::deref_mut"
                      => res = Ok(IF arg[2] = 1
                                  THEN <<arg[3], EdPublicKeyOf(arg[1])>>
                                  ELSE <<arg[1], arg[3]>>)

C16_Witness ==
    /\ xcall # None
    /\ xcall[1].op = "KeyPair::from_slice"
    /\ IsOk(xcall[1].res)
    /\ xcall[1].res.val.sk[1] # 0
    /\ xcall[1].res.val.pk # EdPublicKeyOf(xcall[1].res.val.sk[1])

(***************************************************************************)
(* C17.  from_slice on a slice of the wrong length fails with the error    *)
(* of its own type: InvalidSeed for Seed, InvalidNoise for Noise,          *)
(* InvalidBlind for Blind, InvalidPublicKey for PublicKey,                 *)
(* InvalidSecretKey for SecretKey, InvalidSignature for Signature.  On a   *)
(* slice of the right length it returns Ok with the bytes of the input.    *)
(***************************************************************************)
OwnError ==
    [t \in {"Seed", "Noise", "Blind", "PublicKey", "SecretKey", "Signature"}
        |-> "Invalid" \o t]

OwnLength ==
    [t \in DOMAIN OwnError |-> IF t \in {"SecretKey", "Signature"} THEN 2 ELSE 1]

C17_WrongLengthOwnError ==
    \A t \in DOMAIN OwnError :
        (xcall # None /\ xcall[1].op = t \o "::from_slice")
            => xcall[1].res
                   = IF Len(xcall[1].pk) # OwnLength[t] THEN Err(OwnError[t])
                     ELSE IF OwnLength[t] = 1 THEN Ok(xcall[1].pk[1])
                     ELSE Ok(xcall[1].pk)

(***************************************************************************)
(* C18.  KeyPair::from_seed panics exactly when the seed is all-zero.  For *)
(* every other seed it returns a key pair whose secret key is the seed     *)
(* followed by the public key: sk.seed() is the seed and sk.public_key()   *)
(* is pk.                                                                  *)
(***************************************************************************)
C18_FromSeedPanicsIffZero ==
    (xcall # None /\ xcall[1].op = "KeyPair::from_seed")
        => LET seed == xcall[1].pk[1]
               res  == xcall[1].res
           IN  /\ res = Err("panic") <=> seed = 0
               /\ seed # 0
                      => /\ IsOk(res)
                         /\ res.val.sk = <<seed, res.val.pk>>
                         /\ SecretKey_seed(res.val.sk) = seed
                         /\ SecretKey_public_key(res.val.sk) = res.val.pk
                         /\ res.val.pk = EdPublicKeyOf(seed)

C18_Witness ==
    /\ xcall # None
    /\ xcall[1].op = "KeyPair::from_seed"
    /\ xcall[1].pk[1] > MaxSeed
    /\ IsOk(xcall[1].res)
    /\ SecretKey_seed(xcall[1].res.val.sk) = xcall[1].pk[1]

(***************************************************************************)
(* C19.  When a Seed, an Ed25519 SecretKey, a Blind, a BlindSecretKey, an  *)
(* X25519 SecretKey, a DHOutput or a SigningState is dropped, its secret   *)
(* bytes (for a SigningState, az and nonce) are overwritten with zeros.    *)
(***************************************************************************)
AllZero(bytes) == \A i \in DOMAIN bytes : bytes[i] = 0

C19_DroppedSecretsZero ==
    xcall # None
        => LET left == xcall[1].res.val
           IN  /\ xcall[1].op \in {"drop Seed", "drop SecretKey", "drop Blind",
                                   "drop x25519::SecretKey", "drop DHOutput"}
                      => AllZero(left)
               /\ xcall[1].op = "drop BlindSecretKey"
                      => AllZero(left.prefix) /\ left.blind_scalar = 0
               /\ xcall[1].op = "drop SigningState"
                      => AllZero(left.az) /\ AllZero(left.nonce)

(***************************************************************************)
(* C20.  With self-verify enabled, no signature SecretKey::sign or         *)
(* BlindSecretKey::sign returns fails verification under the public key    *)
(* the signing key carries; sign panics when the fresh signature does not  *)
(* verify, and only then.                                                  *)
(***************************************************************************)
C20_SelfVerifiedOrPanic ==
    /\ (features.self_verify /\ signature # None /\ vresult # None)
           => /\ vpk = IF bkp = None THEN kp[1].sk[2]
                       ELSE bkp[1].blind_sk.blind_pk
              /\ vmessage = message
              /\ vresult[1] = Ok(0)
    /\ (panicked /\ kp # None)
           => /\ features.self_verify
              /\ signature = None
              /\ LET made == IF bkp = None
                             THEN SecretKey_sign(kp[1].sk, message, noise, FALSE)
                             ELSE BlindSecretKey_sign(bkp[1].blind_sk, message,
                                                      noise, FALSE)
                     pk   == IF bkp = None THEN kp[1].sk[2]
                             ELSE bkp[1].blind_sk.blind_pk
                 IN  ~IsOk(PublicKey_verify(pk, message, made.val))

C20_Witness ==
    /\ features.self_verify
    /\ panicked
    /\ kp # None
    /\ bkp = None
    /\ kp[1].sk[1] # 0
    /\ kp[1].sk[2] # EdPublicKeyOf(kp[1].sk[1])

(***************************************************************************)
(* C21.  unclamped_mul applies the scalar as given: for the base point and *)
(* for every canonical public key that is not of small order,              *)
(* unclamped_mul by the scalar 1 returns Ok with the bytes of the key.     *)
(***************************************************************************)
C21_UnclampedMulByOne ==
    (/\ xcall # None
     /\ xcall[1].op = "unclamped_mul"
     /\ xcall[1].sk = 1
     /\ xcall[1].pk < P
     /\ ~SmallOrderU(xcall[1].pk))
        => xcall[1].res = Ok(xcall[1].pk)

C21_Witness ==
    /\ xcall # None
    /\ xcall[1].op = "unclamped_mul"
    /\ xcall[1].sk = 1
    /\ xcall[1].pk = X25519_base_point
    /\ xcall[1].res = Ok(X25519_base_point)

(***************************************************************************)
(* Reference arithmetic on affine points <<x, y>> of the curve             *)
(* -x^2 + y^2 = 1 + d x^2 y^2 over the integers modulo P: the complete     *)
(* addition law, negation, multiplication by double-and-add, and the       *)
(* affine point of a decodable 32-byte string.                             *)
(***************************************************************************)
AffInv(a) == Fe_pow(a % P, P - 2) % P

AffAdd(p, q) ==
    LET x1x2 == (p[1] * q[1]) % P
        y1y2 == (p[2] * q[2]) % P
        x1y2 == (p[1] * q[2]) % P
        y1x2 == (p[2] * q[1]) % P
        dxy  == (FE_D * ((x1x2 * y1y2) % P)) % P
    IN  <<((x1y2 + y1x2) * AffInv(1 + dxy)) % P,
          ((y1y2 + x1x2) * AffInv((1 + P) - dxy)) % P>>

AffNeg(p) == <<(P - p[1]) % P, p[2]>>

RECURSIVE AffMul(_, _)
AffMul(n, p) ==
    IF n = 0 THEN <<0, 1>>
    ELSE LET half == AffMul(n \div 2, p)
             dbl  == AffAdd(half, half)
         IN  IF n % 2 = 1 THEN AffAdd(dbl, p) ELSE dbl

AffOf(p3) ==
    <<(p3.x * AffInv(p3.z)) % P, (p3.y * AffInv(p3.z)) % P>>

AffDecode(s) == AffOf(GeP3_from_bytes_vartime(s)[1])

AffSmallOrder(p) == AffMul(8, p) = <<0, 1>>

AffBase == <<BXP % P, BYP % P>>

(***************************************************************************)
(* C22.  With S canonical, the public key A decodable and not weak, and R  *)
(* decodable, verify returns Ok exactly when R - (S*G - k*A) has small     *)
(* order, k being the challenge scalar, and SignatureMismatch otherwise.   *)
(***************************************************************************)
C22_AcceptIffSmallOrder ==
    (/\ vresult # None
     /\ vsignature[1][2] < L
     /\ ~is_identity(vpk)
     /\ vpk # 0
     /\ GeP3_from_bytes_vartime(vpk) # None
     /\ GeP3_from_bytes_vartime(vsignature[1][1]) # None)
        => LET k    == Challenge(vsignature[1][1], vpk, vmessage)
               sG   == AffMul(vsignature[1][2], AffBase)
               kA   == AffMul(k, AffDecode(vpk))
               diff == AffAdd(AffDecode(vsignature[1][1]),
                              AffNeg(AffAdd(sG, AffNeg(kA))))
           IN  vresult[1] = IF AffSmallOrder(diff) THEN Ok(0)
                            ELSE Err("SignatureMismatch")

(***************************************************************************)
(* C23.  Verification applies its checks in a fixed order and the first    *)
(* failing check decides the error: s >= l, then a weak public key         *)
(* (WeakPublicKey), then a public key that fails to decompress             *)
(* (InvalidPublicKey).  verify_incremental reports these three and         *)
(* returns no state, so nothing is hashed; an R that fails to decompress   *)
(* (InvalidSignature) and a failed equation (SignatureMismatch) are        *)
(* reported only by verify() on the state.                                 *)
(***************************************************************************)
LaterErrors ==
    {"WeakPublicKey", "InvalidPublicKey", "InvalidSignature",
     "SignatureMismatch"}

(* The check that fails first when the state is created, 0 if none does.   *)
FirstEarlyCheck(pk, sig) ==
    IF sig[2] >= L THEN 1
    ELSE IF pk = 0 \/ pk % TwoF = 1 THEN 2
    ELSE IF FailsDecompression(pk) THEN 3
    ELSE 0

EarlyOutcome(pk, sig, res) ==
    CASE FirstEarlyCheck(pk, sig) = 1 ->
             ~IsOk(res) /\ res.tag \notin LaterErrors
      [] FirstEarlyCheck(pk, sig) = 2 -> res = Err("WeakPublicKey")
      [] FirstEarlyCheck(pk, sig) = 3 -> res = Err("InvalidPublicKey")
      [] OTHER -> FALSE

LateOutcome(sig, res) ==
    IF FailsDecompression(sig[1]) THEN res = Err("InvalidSignature")
    ELSE res \in {Ok(0), Err("SignatureMismatch")}

C23_Step ==
    /\ (vapi = "" /\ vapi' = "verify_incremental")
           => IF FirstEarlyCheck(vpk', vsignature'[1]) # 0
              THEN /\ vst' = None
                   /\ vresult' # None
                   /\ EarlyOutcome(vpk', vsignature'[1], vresult'[1])
              ELSE /\ vst' # None
                   /\ vresult' = None
    /\ (vapi = "verify_incremental" /\ vst = None) => UNCHANGED vars
    /\ (vapi = "verify_incremental" /\ vresult = None /\ vresult' # None)
           => LateOutcome(vsignature[1], vresult'[1])
    /\ (vapi = "" /\ vapi' = "verify")
           => /\ vresult' # None
              /\ IF FirstEarlyCheck(vpk', vsignature'[1]) # 0
                 THEN EarlyOutcome(vpk', vsignature'[1], vresult'[1])
                 ELSE LateOutcome(vsignature'[1], vresult'[1])

C23_CheckOrder == [][C23_Step]_vars

C23_Witness ==
    /\ vapi = "verify_incremental"
    /\ FirstEarlyCheck(vpk, vsignature[1]) = 0
    /\ FailsDecompression(vsignature[1][1])
    /\ vchunks = 1
    /\ vresult = Some(Err("InvalidSignature"))

(***************************************************************************)
(* C24.  Point encoding round-trips: for every point A of the curve,       *)
(* from_bytes_vartime(A.to_bytes()) is Some point with the affine x and y  *)
(* of A, and from_bytes_negate_vartime of the same bytes is Some point     *)
(* with the affine coordinates of -A.                                      *)
(***************************************************************************)
C24_EncodingRoundTrips ==
    (xcall # None /\ xcall[1].op = "GeP3::to_bytes")
        => LET a   == <<xcall[1].pk[1], xcall[1].pk[2]>>
               res == xcall[1].res
           IN  /\ res.dec # None
               /\ AffOf(res.dec[1]) = a
               /\ res.neg # None
               /\ AffOf(res.neg[1]) = AffNeg(a)

C24_Witness ==
    /\ xcall # None
    /\ xcall[1].op = "GeP3::to_bytes"
    /\ xcall[1].pk[1] % 2 = 1
    /\ xcall[1].pk[3] > 1
    /\ xcall[1].res.bytes >= TwoF
    /\ xcall[1].res.dec # None
    /\ AffOf(xcall[1].res.dec[1]) = <<xcall[1].pk[1], xcall[1].pk[2]>>

ExtendedInvariant(p) ==
    ((p.t % P) * (p.z % P)) % P = ((p.x % P) * (p.y % P)) % P

(* The extended points of one run of VerifyingState::verify.               *)
VerifyPoints(pk, m, sig) ==
    LET a          == GeP3_from_bytes_negate_vartime(pk)[1]
        expected_r == GeP3_from_bytes_vartime(sig[1])[1]
        r          == GeP2_double_scalarmult_vartime(Challenge(sig[1], pk, m),
                                                     a, sig[2])
        converted  == GeP3_from_GeP2(r)
    IN  [a |-> a, expected_r |-> expected_r, converted |-> converted,
         diff |-> GeP3_sub(expected_r, converted),
         zero |-> GeP3_zero, base |-> BasePoint]

C26_ExtendedInvariantHolds ==
    (/\ vresult # None
     /\ vapi = "verify"
     /\ vresult[1] \in {Ok(0), Err("SignatureMismatch")})
        => LET pts == VerifyPoints(vpk, vmessage, vsignature[1])
           IN  \A f \in DOMAIN pts : ExtendedInvariant(pts[f])

(***************************************************************************)
(* C27.  After any sequence of Hash::update calls with chunks of any       *)
(* length the hasher has 0 <= r < block length, len = the number of bytes  *)
(* absorbed, r = len mod block length, w[0..r] = the last r bytes          *)
(* absorbed, and a state that is the compression, once and in order, of    *)
(* the whole blocks of the concatenated input; finalize returns what       *)
(* Hash::hash returns for the concatenation.                               *)
(***************************************************************************)
C27_StreamingHashInvariant ==
    (xcall # None /\ xcall[1].op = "Hash")
        => LET all   == xcall[1].pk
               h     == xcall[1].res
               whole == (Len(all) \div BlockLen) * BlockLen
           IN  /\ 0 <= h.r
               /\ h.r < BlockLen
               /\ h.len = Len(all)
               /\ h.r = Len(all) % BlockLen
               /\ \A i \in 1 .. h.r : h.w[i] = all[(Len(all) - h.r) + i]
               /\ h.state = State_blocks(State_new, SubSeq(all, 1, whole))
               /\ Hash_finalize(h) = Hash_hash(all)

C27_Witness ==
    /\ xcall # None
    /\ xcall[1].op = "Hash"
    /\ Len(xcall[1].pk) = MaxAbsorbed - 1
    /\ xcall[1].res.r = 1
    /\ xcall[1].res.w[1] = 1
    /\ xcall[1].res.state # State_new
    /\ Hash_finalize(xcall[1].res) = Hash_hash(xcall[1].pk)

(***************************************************************************)
(* C28.  Clamping clears the three low bits, clears the top bit, sets the  *)
(* bit below the top bit and leaves every other bit of the scalar as it    *)
(* was, so clamping twice is clamping once; x25519 SecretKey::clamped      *)
(* returns a new key and leaves the key it is called on unchanged.         *)
(***************************************************************************)
ClampedBit(scalar, i) ==
    IF i < 3 \/ i = SymBits - 1 THEN 0
    ELSE IF i = SymBits - 2 THEN 1
    ELSE (scalar \div (2 ^ i)) % 2

C28_ClampFrame ==
    (xcall # None /\ xcall[1].op \in {"KeyPair::clamp", "SecretKey::clamped"})
        => LET scalar == xcall[1].pk
               res    == xcall[1].res
           IN  /\ res.once \in Sym
               /\ \A i \in 0 .. (SymBits - 1) :
                      (res.once \div (2 ^ i)) % 2 = ClampedBit(scalar, i)
               /\ res.twice = res.once
               /\ xcall[1].op = "SecretKey::clamped" => res.self = scalar

C28_Witness ==
    /\ xcall # None
    /\ xcall[1].op = "KeyPair::clamp"
    /\ xcall[1].pk = (2 ^ SymBits) - 1
    /\ xcall[1].res.once = (2 ^ (SymBits - 1)) - 8
    /\ xcall[1].res.twice = xcall[1].res.once

(***************************************************************************)
(* C29.  SigningState::sign and VerifyingState::verify leave the state as  *)
(* it was: a second call without an absorb in between returns the same     *)
(* result, and after further absorbs sign() and verify() give the result   *)
(* for the whole concatenation absorbed so far.                            *)
(***************************************************************************)
(* The signature of a fresh state that absorbs m in one chunk.             *)
StreamedSignature(m) ==
    SigningState_sign(
        SigningState_absorb(
            SecretKey_sign_incremental(
                kp[1].sk, noise[1],
                IF features.random THEN Some(call_rng[1]) ELSE None),
            m))

C29_Holds ==
    /\ signature # None => signature[1] = StreamedSignature(message)
    /\ again # None => again = signature
    /\ (vst # None /\ vresult # None)
           => vresult[1] = PublicKey_verify(vpk, vmessage, vsignature[1])
    /\ (vst # None /\ xcall # None)
           => /\ xcall[1].res = PublicKey_verify(vpk, xcall[1].pk,
                                                 vsignature[1])
              /\ (xcall[1].pk = vmessage /\ vresult # None)
                     => vresult[1] = xcall[1].res

C29_Step ==
    /\ (sst # None /\ message' = message) => sst' = sst
    /\ (vst # None /\ vmessage' = vmessage) => vst' = vst

C29_StateUnchangedBySignAndVerify == []C29_Holds /\ [][C29_Step]_vars

C29_Witness ==
    /\ again # None
    /\ again = signature
    /\ schunks = MaxResumeChunks
    /\ Len(message) = MaxResume
    /\ xcall # None
    /\ xcall[1].pk # vmessage
    /\ xcall[1].res = Err("SignatureMismatch")
    /\ vmessage = message
    /\ vresult = Some(Ok(0))

(***************************************************************************)
(* C30.  Without the additional random noise, the nonce of a streaming     *)
(* signature, and so its R, is fixed by the seed and the caller's noise    *)
(* when sign_incremental creates the state: whatever is absorbed, R is     *)
(* the R of a state created from the same secret key and the same noise    *)
(* that absorbs nothing.  The nonce of single-shot sign depends on the     *)
(* message as well: for two messages it gives two values of R.             *)
(***************************************************************************)
StreamedR(sk, n) ==
    SigningState_sign(SecretKey_sign_incremental(sk, n, None))[1]

SingleShotR(sk, m, n) == SecretKey_sign(sk, m, Some(n), FALSE).val[1]

C30_StreamedNonceIgnoresMessage ==
    (~features.random /\ sst # None /\ signature # None)
        => /\ signature[1][1] = StreamedR(kp[1].sk, noise[1])
           /\ again # None
                  => /\ again[1][1] = SingleShotR(kp[1].sk, message, noise[1])
                     /\ \E m \in Msgs :
                            SingleShotR(kp[1].sk, m, noise[1]) # again[1][1]

C30_Witness ==
    /\ ~features.random
    /\ sst # None
    /\ signature # None
    /\ Len(message) = MaxStream
    /\ signature[1][1] = StreamedR(kp[1].sk, noise[1])
    /\ again # None
    /\ again[1][1] # signature[1][1]

=============================================================================
